---- MODULE Spec2Model ----
(***************************************************************************)
(* Resource synchronization core of the provider:                          *)
(*   - the composite identifier codec (flex.FlattenResourceId /            *)
(*     flex.ExpandResourceId) as used by keyResourceModel.setID,           *)
(*     keyResource.ImportState and the Cognito user-in-group resource;     *)
(*   - the guarded mutations of the CloudFront KeyValueStore key resource  *)
(*     (keyResource.Create / Update / Delete) under conns.GlobalMutexKV    *)
(*     and the store's ETag precondition;                                  *)
(*   - the state waits of the ElastiCache user group resource              *)
(*     (waitUserGroupCreated / Updated / Deleted over statusUserGroup)     *)
(*     and its Create / Read / Update / Delete handlers.                   *)
(***************************************************************************)
EXTENDS Integers, Sequences, FiniteSets, TLC

VARIABLES
  \* ---- key resource (guarded mutation) ----
  mutex,       \* conns.GlobalMutexKV: lock identity -> holder (or NoCaller)
  store,       \* remote key value stores: arn -> [exists, etag, items]
  pc,          \* per caller: position inside the running handler
  op,          \* per caller: the running handler's request (kind, old, data)
  etagRead,    \* per caller: the ETag returned by findETagByARN
  diags,       \* per caller: response.Diagnostics of the last handler run
  tfstate,     \* per caller: the resource's local state (response.State)
  opsDone,     \* handlers started so far, over all callers
  extWrites,   \* writes made by writers outside this process so far
  extWriter,   \* a writer in another process: [phase, arn, etag, err]
  faults,      \* per caller: the errors the remote calls of the running handler answered
  interfered,  \* per caller: an outside write hit its store after its token read
  lockedAtRead,\* per caller: whether it held its lock when it read the token
  lastFailed,  \* per caller: whether its last handler run returned an error
  ctxDone,     \* per caller: the context of its running handler is done
  canceledWaiting, \* per caller: its context was done while it waited for a held lock
  reads,       \* per caller: token reads made by the running handler
  sent,        \* per caller: the IfMatch tokens of the writes the running handler issued
  \* ---- identifier codec ----
  cparts,      \* the part list handed to the codec
  carity,      \* expectedCount of the call
  callow,      \* allowEmpty of the call
  cid,         \* the identifier produced / presented
  cenc,        \* result of FlattenResourceId
  cdec,        \* result of ExpandResourceId
  cdarity,     \* expectedCount of the ExpandResourceId call
  cphase,      \* "off" | "input" | "encoded" | "decoded" | "imported" | "keyread" | "creating" | "created" | "deleted" | "reimported"
  imported,    \* result of keyResource.ImportState: [req, diag, attrs]
  kread,       \* keyResource.Read of the imported and of the created resource
  uig,         \* the user-in-group resource data after Create and after import
  members,     \* remote group memberships: <<user pool, group, user>> triples
  \* ---- state poller ----
  group,       \* the remote user group: a status label, or Absent
  conf,        \* the StateChangeConf of the running wait
  pstate,      \* "Idle" | "Polling" | "Succeeded" | "Failed" | "TimedOut" | "Canceled"
  pphase,      \* position inside the wait: "delay" | "refresh" | "fetching" | "sleep" | "end"
  now,         \* seconds elapsed since the wait started
  refreshes,   \* refresh calls started so far
  lastRefreshAt,\* time of the last refresh call (-1: none yet)
  lastObs,     \* the last observation: [found, label, obj] and the raw response
  outcome,     \* what the wait returned: [obj, err, label]
  allPending,  \* every observation so far was a pending label
  minGap,      \* smallest gap seen between two consecutive refresh calls (-1: none)
  pollCtxDone, \* the context of the wait is done (canceled by its caller)
  \* ---- user group resource (handlers) ----
  gpc,         \* position inside the running handler
  greq,        \* the running handler's request: its kind, the configuration and the change
  ginput,      \* the CreateUserGroupInput the Create handler holds
  gdata,       \* the *schema.ResourceData: [id, isNew, attrs]
  gdiags,      \* the diagnostics the handler returned
  gcalls       \* the remote calls the handler made, in order: [api, input, err, out]

keyVars == <<mutex, store, pc, op, etagRead, diags, tfstate, opsDone, extWrites, extWriter, faults,
             interfered, lockedAtRead, lastFailed, ctxDone, canceledWaiting, reads, sent>>
codecVars == <<cparts, carity, callow, cid, cenc, cdec, cdarity, cphase, imported,
               kread, uig, members>>
pollVars == <<group, conf, pstate, pphase, now, refreshes, lastRefreshAt, lastObs,
              outcome, allPending, minGap, pollCtxDone>>
grpVars == <<gpc, greq, ginput, gdata, gdiags, gcalls>>
vars == <<keyVars, codecVars, pollVars, grpVars>>

None == "none"

(***************************************************************************)
(* Identifier codec                                                        *)
(***************************************************************************)
\* Strings are sequences of characters over a small alphabet that holds the
\* delimiter and the escape character.
Delim == ","
Esc == "\\"
Chars == {"a", Delim, Esc}

MaxPartLen == 2

RECURSIVE SeqsUpTo(_, _)
SeqsUpTo(S, n) ==
  IF n = 0 THEN {<<>>}
  ELSE LET shorter == SeqsUpTo(S, n - 1)
       IN shorter \cup {Append(s, x) : s \in {t \in shorter : Len(t) = n - 1}, x \in S}

Strings == SeqsUpTo(Chars, MaxPartLen)

\* Parts joined as they are.
EscapePartNotEscaping(s) == s

RECURSIVE EscapePart(_)
EscapePart(s) ==
  IF s = <<>> THEN <<>>
  ELSE (IF Head(s) \in {Delim, Esc} THEN <<Esc, Head(s)>> ELSE <<Head(s)>>)
       \o EscapePart(Tail(s))

\* Parts joined by the delimiter with no escaping.
RECURSIVE JoinPartsUnescaped(_)
JoinPartsUnescaped(parts) ==
  IF parts = <<>> THEN <<>>
  ELSE IF Len(parts) = 1 THEN parts[1]
  ELSE parts[1] \o <<Delim>> \o JoinPartsUnescaped(Tail(parts))
RECURSIVE JoinParts(_)
JoinParts(parts) ==
  IF parts = <<>> THEN <<>>
  ELSE IF Len(parts) = 1 THEN EscapePart(parts[1])
  ELSE EscapePart(parts[1]) \o <<Delim>> \o JoinParts(Tail(parts))

\* Scans an identifier left to right: an escape character takes the next
\* character literally, an unescaped delimiter ends the current part.
RECURSIVE SplitScan(_, _, _)
SplitScan(rest, cur, acc) ==
  IF rest = <<>> THEN Append(acc, cur)
  ELSE IF Head(rest) = Esc /\ Len(rest) >= 2
       THEN SplitScan(Tail(Tail(rest)), Append(cur, rest[2]), acc)
  ELSE IF Head(rest) = Delim
       THEN SplitScan(Tail(rest), <<>>, Append(acc, cur))
  ELSE SplitScan(Tail(rest), Append(cur, Head(rest)), acc)

SplitParts(id) == SplitScan(id, <<>>, <<>>)

HasEmptyPart(parts) == \E i \in 1..Len(parts) : parts[i] = <<>>

\* Joins whatever number of parts it is given.
FlattenResourceIdAnyCount(parts, expectedCount, allowEmpty) ==
  IF ~allowEmpty /\ HasEmptyPart(parts) THEN [id |-> <<>>, err |-> "InvalidPartError"]
  ELSE [id |-> JoinParts(parts), err |-> None]

\* flex.FlattenResourceId(parts, expectedCount, allowEmpty) (string, error)
FlattenResourceId(parts, expectedCount, allowEmpty) ==
  IF Len(parts) # expectedCount THEN [id |-> <<>>, err |-> "ArityError"]
  ELSE IF ~allowEmpty /\ HasEmptyPart(parts) THEN [id |-> <<>>, err |-> "InvalidPartError"]
  ELSE [id |-> JoinParts(parts), err |-> None]

\* flex.ExpandResourceId(id, expectedCount, allowEmpty) ([]string, error)
ExpandResourceId(id, expectedCount, allowEmpty) ==
  LET parts == SplitParts(id)
  IN IF Len(parts) # expectedCount THEN [parts |-> <<>>, err |-> "ArityError"]
     ELSE IF ~allowEmpty /\ HasEmptyPart(parts) THEN [parts |-> <<>>, err |-> "InvalidPartError"]
     ELSE [parts |-> parts, err |-> None]

keyResourceIDPartCount == 2
userInGroupIDPartCount == 3

(***************************************************************************)
(* Key resource: guarded mutations of a key value store                    *)
(***************************************************************************)
NumCallers == 2
MaxOps == 2
MaxExtWrites == 1

Callers == 1..NumCallers
NoCaller == 0

ARNs == {<<"a">>, <<"a", "a">>}
\* The key each caller's resource is configured with: distinct resources of one
\* configuration address distinct keys; a key may hold the delimiter.
KeyOf(p) == [i \in 1..p |-> IF i = 1 THEN "a" ELSE Delim]
KeySet == {KeyOf(p) : p \in Callers}
Values == {"v1", "v2"}
ExtValue == "x"
LockIds == ARNs \cup KeySet

NoETag == -1
NoData == [arn |-> <<>>, key |-> <<>>, value |-> None]
NoState == [present |-> FALSE, id |-> <<>>, arn |-> <<>>, key |-> <<>>, value |-> None, size |-> 0]
NoDiag == [summary |-> None, detail |-> None]
NoOp == [kind |-> None, old |-> NoState, data |-> NoData]
NoWriter == [phase |-> "idle", arn |-> <<>>, etag |-> NoETag, err |-> None]

EmptyStore(e) == [exists |-> e, etag |-> 1, items |-> [k \in KeySet |-> None]]

\* output.TotalSizeInBytes, counted in stored items.
TotalSize(items) == Cardinality({k \in DOMAIN items : items[k] # None})

\* ---- the remote store's contract ----
\* DescribeKeyValueStore
DescribeKeyValueStore(st) ==
  IF st.exists THEN [etag |-> st.etag, err |-> None]
  ELSE [etag |-> NoETag, err |-> "ResourceNotFoundException"]

\* What a DescribeKeyValueStore call can return: the store's answer, a service
\* failure, or an output without ETag.
DescribeResponses(st) ==
  {DescribeKeyValueStore(st),
   [etag |-> NoETag, err |-> "InternalServerException"],
   [etag |-> NoETag, err |-> None]}

\* PutKey with IfMatch: compare-and-swap on the store's ETag.
PutKey(st, input) ==
  IF ~st.exists THEN [store |-> st, err |-> "ResourceNotFoundException", size |-> 0]
  ELSE IF input.IfMatch # st.etag THEN [store |-> st, err |-> "PreconditionFailed", size |-> 0]
  ELSE LET items == [st.items EXCEPT ![input.Key] = input.Value]
       IN [store |-> [st EXCEPT !.items = items, !.etag = st.etag + 1],
           err |-> None, size |-> TotalSize(items)]

\* DeleteKey with IfMatch.
DeleteKey(st, input) ==
  IF ~st.exists THEN [store |-> st, err |-> "ResourceNotFoundException", size |-> 0]
  ELSE IF input.IfMatch # st.etag THEN [store |-> st, err |-> "PreconditionFailed", size |-> 0]
  ELSE IF st.items[input.Key] = None
       THEN [store |-> st, err |-> "ResourceNotFoundException", size |-> 0]
  ELSE LET items == [st.items EXCEPT ![input.Key] = None]
       IN [store |-> [st EXCEPT !.items = items, !.etag = st.etag + 1],
           err |-> None, size |-> TotalSize(items)]

\* A call that fails before the store acts on it.
ServiceFailure(st) == [store |-> st, err |-> "InternalServerException", size |-> 0]

\* A call made with a context that is done is not sent: it returns the
\* context's error.
RequestCanceled == "RequestCanceled"
CallResponses(done, responses, canceled) == IF done THEN {canceled} ELSE responses

\* ---- conns.GlobalMutexKV: one mutual exclusion lock per identity ----
\* Lock(key) returns once the lock of the key is free, and takes it.
MutexKVFree(key) == mutex[key] = NoCaller
MutexKVLock(key, p) == [mutex EXCEPT ![key] = p]
\* Unlock(key) frees the lock of the key.
MutexKVUnlock(key) == [mutex EXCEPT ![key] = NoCaller]

\* ---- the resource's code ----
\* mutexKey := kvsARN
MutexKeyByKey(data) == data.key
\* One lock for every key value store.
MutexKeyGlobal(data) == <<"a">>
MutexKey(data) == data.arn

\* findETagByARN
findETagByARN(resp) ==
  IF resp.err = "ResourceNotFoundException" THEN [etag |-> NoETag, err |-> "NotFoundError"]
  ELSE IF resp.err # None THEN [etag |-> NoETag, err |-> resp.err]
  ELSE IF resp.etag = NoETag THEN [etag |-> NoETag, err |-> "EmptyResultError"]
  ELSE [etag |-> resp.etag, err |-> None]

\* input := &PutKeyInput{}; Expand(data, input); input.IfMatch = etag
PutKeyInputNoIfMatch(data, etag) ==
  [IfMatch |-> NoETag, Key |-> data.key, KvsARN |-> data.arn, Value |-> data.value]
PutKeyInput(data, etag) ==
  [IfMatch |-> etag, Key |-> data.key, KvsARN |-> data.arn, Value |-> data.value]

\* input := DeleteKeyInput{IfMatch: etag, Key: data.Key, KvsARN: data.KvsARN}
DeleteKeyInput(data, etag) ==
  [IfMatch |-> etag, Key |-> data.key, KvsARN |-> data.arn]

\* keyResourceModel.setID
setID(data) == FlattenResourceId(<<data.arn, data.key>>, keyResourceIDPartCount, FALSE)

\* arn.Parse: the model's well-formed ARNs are the store ARNs.
ArnParse(s) == IF s \in ARNs THEN None ELSE "InvalidArn"

NoAttrs == [arn |-> <<>>, key |-> <<>>, id |-> <<>>]
NoIdentity == [arn |-> <<>>, key |-> <<>>]
NoImport == [req |-> <<>>, diag |-> None, attrs |-> NoAttrs]
\* keyResource.Read returns [diag, state]; no Read has run yet.
NoRead == [diag |-> NoDiag, state |-> NoState]
NoKeyRead == [created |-> NoRead, imported |-> NoRead, compared |-> FALSE]

\* The user-in-group resource data: d.Id(), the three attributes, and the
\* diagnostics of the handler that ran last.
UserInGroupAttrs(userPoolId, groupName, username) ==
  [user_pool_id |-> userPoolId, group_name |-> groupName, username |-> username]
NoUserInGroupAttrs == UserInGroupAttrs(<<>>, <<>>, <<>>)
NoResourceData == [id |-> <<>>, attrs |-> NoUserInGroupAttrs, diag |-> None]
NoUserInGroup == [created |-> NoResourceData, imported |-> NoResourceData,
                  deleted |-> NoResourceData]
\* The resource identity that goes with a part list of the key resource.
IdentitiesOf(parts) ==
  IF Len(parts) = keyResourceIDPartCount
  THEN {[arn |-> parts[1], key |-> parts[2]]}
  ELSE {}

\* keyResource.ImportState: (diagnostic, attributes set in the state)
ImportStateSplitting(id, identity) ==
  IF id # <<>>
  THEN LET parts == SplitParts(id)
       IN IF Len(parts) < keyResourceIDPartCount
          THEN [diag |-> "ArityError", attrs |-> NoAttrs]
          ELSE IF ArnParse(parts[1]) # None
          THEN [diag |-> ArnParse(parts[1]), attrs |-> NoAttrs]
          ELSE [diag |-> None, attrs |-> [arn |-> parts[1], key |-> parts[2], id |-> id]]
  ELSE [diag |-> None, attrs |-> NoAttrs]
ImportState(id, identity) ==
  IF id # <<>>
  THEN LET r == ExpandResourceId(id, keyResourceIDPartCount, FALSE)
       IN IF r.err # None THEN [diag |-> r.err, attrs |-> NoAttrs]
          ELSE IF ArnParse(r.parts[1]) # None
          THEN [diag |-> ArnParse(r.parts[1]), attrs |-> NoAttrs]
          ELSE [diag |-> None,
                attrs |-> [arn |-> r.parts[1], key |-> r.parts[2], id |-> id]]
  ELSE IF identity # NoIdentity
  THEN [diag |-> None,
        attrs |-> [arn |-> identity.arn, key |-> identity.key,
                   id |-> FlattenResourceId(<<identity.arn, identity.key>>,
                                            keyResourceIDPartCount, FALSE).id]]
  ELSE [diag |-> None, attrs |-> NoAttrs]

\* Create, from the PutKey result on: [diag, state]
CreateAfterPutIgnoringError(data, old, resp) ==
  [diag |-> NoDiag,
   state |-> [present |-> TRUE, id |-> setID(data).id, arn |-> data.arn,
              key |-> data.key, value |-> data.value, size |-> resp.size]]
CreateAfterPut(data, old, resp) ==
  IF resp.err # None
  THEN [diag |-> [summary |-> "creating Key", detail |-> resp.err], state |-> old]
  ELSE IF setID(data).err # None
  THEN [diag |-> [summary |-> "creating Key", detail |-> setID(data).err], state |-> old]
  ELSE [diag |-> NoDiag,
        state |-> [present |-> TRUE, id |-> setID(data).id, arn |-> data.arn,
                   key |-> data.key, value |-> data.value, size |-> resp.size]]

\* Update, from the PutKey result on: [diag, state]
\* Update storing the plan whatever PutKey answered.
UpdateAfterPutIgnoringError(data, old, resp) ==
  [diag |-> NoDiag, state |-> [old EXCEPT !.value = data.value, !.size = resp.size]]
UpdateAfterPut(data, old, resp) ==
  IF resp.err # None
  THEN [diag |-> [summary |-> "updating Key", detail |-> resp.err], state |-> old]
  ELSE [diag |-> NoDiag,
        state |-> [old EXCEPT !.value = data.value, !.size = resp.size]]

\* Delete, from the DeleteKey result on: [diag, state]; a delete that reports no
\* error drops the resource from the state.
\* Delete dropping the resource whatever DeleteKey answered.
DeleteAfterDeleteKeyIgnoringErrors(data, old, resp) == [diag |-> NoDiag, state |-> NoState]
DeleteAfterDeleteKey(data, old, resp) ==
  IF resp.err = "ResourceNotFoundException" THEN [diag |-> NoDiag, state |-> NoState]
  ELSE IF resp.err # None
  THEN [diag |-> [summary |-> "deleting Key", detail |-> resp.err], state |-> old]
  ELSE [diag |-> NoDiag, state |-> NoState]

\* A resource that an earlier run created: it is in the local state, with the
\* total size the store reported to the Create or Read that stored it, and its
\* key is in the store.
ExistingState(p, a, v, size) ==
  [present |-> TRUE, id |-> setID([arn |-> a, key |-> KeyOf(p), value |-> v]).id,
   arn |-> a, key |-> KeyOf(p), value |-> v, size |-> size]

InitialARN == <<"a">>
InitialValue == "v1"

\* The items of a store that holds the keys of the callers in have.
InitialItems(have) ==
  [k \in KeySet |-> IF \E p \in have : KeyOf(p) = k THEN InitialValue ELSE None]

\* The process starts with the resources of earlier runs in its state (each
\* caller's resource exists or not, as the last Read left it: with the size of
\* the store that holds the keys), no handler running and every lock free.
KeyInit ==
  /\ mutex = [l \in LockIds |-> NoCaller]
  /\ \E have \in SUBSET Callers, others \in BOOLEAN :
       /\ tfstate = [p \in Callers |->
                       IF p \in have
                       THEN ExistingState(p, InitialARN, InitialValue,
                                          TotalSize(InitialItems(have)))
                       ELSE NoState]
       /\ store = [a \in ARNs |->
                     IF a = InitialARN
                     THEN [exists |-> TRUE, etag |-> 1, items |-> InitialItems(have)]
                     ELSE EmptyStore(others)]
  /\ pc = [p \in Callers |-> "idle"]
  /\ op = [p \in Callers |-> NoOp]
  /\ etagRead = [p \in Callers |-> NoETag]
  /\ diags = [p \in Callers |-> NoDiag]
  /\ opsDone = 0
  /\ extWrites = 0
  /\ extWriter = NoWriter
  /\ faults = [p \in Callers |-> <<>>]
  /\ interfered = [p \in Callers |-> FALSE]
  /\ lockedAtRead = [p \in Callers |-> FALSE]
  /\ lastFailed = [p \in Callers |-> FALSE]
  /\ ctxDone = [p \in Callers |-> FALSE]
  /\ canceledWaiting = [p \in Callers |-> FALSE]
  /\ reads = [p \in Callers |-> 0]
  /\ sent = [p \in Callers |-> <<>>]

\* A handler starts: its diagnostics are empty and nothing was read or sent.
Begin(p, kind, old, data) ==
  /\ op' = [op EXCEPT ![p] = [kind |-> kind, old |-> old, data |-> data]]
  /\ pc' = [pc EXCEPT ![p] = "lock"]
  /\ diags' = [diags EXCEPT ![p] = NoDiag]
  /\ etagRead' = [etagRead EXCEPT ![p] = NoETag]
  /\ interfered' = [interfered EXCEPT ![p] = FALSE]
  /\ lockedAtRead' = [lockedAtRead EXCEPT ![p] = FALSE]
  /\ opsDone' = opsDone + 1
  /\ ctxDone' = [ctxDone EXCEPT ![p] = FALSE]
  /\ canceledWaiting' = [canceledWaiting EXCEPT ![p] = FALSE]
  /\ reads' = [reads EXCEPT ![p] = 0]
  /\ sent' = [sent EXCEPT ![p] = <<>>]
  /\ faults' = [faults EXCEPT ![p] = <<>>]
  /\ UNCHANGED <<mutex, store, tfstate, extWrites, extWriter, lastFailed>>

\* keyResource.Create is called with a plan.
KeyCreateCall(p) ==
  /\ pc[p] = "idle" /\ ~tfstate[p].present /\ opsDone < MaxOps
  /\ \E a \in ARNs, v \in Values :
       Begin(p, "Create", tfstate[p], [arn |-> a, key |-> KeyOf(p), value |-> v])
  /\ UNCHANGED <<codecVars, pollVars, grpVars>>

\* Update going through the lock, the token read and the write whatever the plan.
KeyUpdateCallAlwaysGuarded(p) ==
  /\ pc[p] = "idle" /\ tfstate[p].present /\ opsDone < MaxOps
  /\ \E v \in Values :
       Begin(p, "Update", tfstate[p],
             [arn |-> tfstate[p].arn, key |-> tfstate[p].key, value |-> v])
  /\ UNCHANGED <<codecVars, pollVars, grpVars>>
\* keyResource.Update is called with the state and a plan: with an unchanged
\* value it only stores the plan.
KeyUpdateCall(p) ==
  /\ pc[p] = "idle" /\ tfstate[p].present /\ opsDone < MaxOps
  /\ \E v \in Values :
       LET new == [arn |-> tfstate[p].arn, key |-> tfstate[p].key, value |-> v]
       IN IF v # tfstate[p].value
          THEN Begin(p, "Update", tfstate[p], new)
          ELSE /\ lastFailed' = [lastFailed EXCEPT ![p] = FALSE]
               /\ opsDone' = opsDone + 1
               /\ tfstate' = [tfstate EXCEPT ![p] = [@ EXCEPT !.value = v]]
               /\ UNCHANGED <<mutex, store, pc, op, etagRead, diags, extWrites, extWriter, faults,
                              interfered, lockedAtRead, ctxDone, canceledWaiting,
                              reads, sent>>
  /\ UNCHANGED <<codecVars, pollVars, grpVars>>

\* keyResource.Delete is called with the state.
KeyDeleteCall(p) ==
  /\ pc[p] = "idle" /\ tfstate[p].present /\ opsDone < MaxOps
  /\ Begin(p, "Delete", tfstate[p],
           [arn |-> tfstate[p].arn, key |-> tfstate[p].key, value |-> tfstate[p].value])
  /\ UNCHANGED <<codecVars, pollVars, grpVars>>

\* conns.GlobalMutexKV.Lock(mutexKey): blocks until the lock is free. The call
\* is not given the handler's context.
KeyLockNotWaiting(p) ==
  /\ pc[p] = "lock"
  /\ mutex' = MutexKVLock(MutexKey(op[p].data), p)
  /\ pc' = [pc EXCEPT ![p] = "read"]
  /\ UNCHANGED <<store, op, etagRead, diags, tfstate, opsDone, extWrites, extWriter, faults,
                 interfered, lockedAtRead, lastFailed, ctxDone, canceledWaiting,
                 reads, sent>>
  /\ UNCHANGED <<codecVars, pollVars, grpVars>>
KeyLock(p) ==
  /\ pc[p] = "lock"
  /\ MutexKVFree(MutexKey(op[p].data))
  /\ mutex' = MutexKVLock(MutexKey(op[p].data), p)
  /\ pc' = [pc EXCEPT ![p] = "read"]
  /\ UNCHANGED <<store, op, etagRead, diags, tfstate, opsDone, extWrites, extWriter, faults,
                 interfered, lockedAtRead, lastFailed, ctxDone, canceledWaiting,
                 reads, sent>>
  /\ UNCHANGED <<codecVars, pollVars, grpVars>>

\* etag, err := findETagByARN(ctx, conn, kvsARN); on error report and return.
KeyFindETagThenUnlock(p) ==
  /\ pc[p] = "read"
  /\ \E resp \in CallResponses(ctxDone[p], DescribeResponses(store[op[p].data.arn]),
                                [etag |-> NoETag, err |-> RequestCanceled]) :
       LET r == findETagByARN(resp)
       IN /\ etagRead' = [etagRead EXCEPT ![p] = r.etag]
          /\ reads' = [reads EXCEPT ![p] = @ + 1]
          /\ faults' = [faults EXCEPT ![p] =
                          IF resp.err # None THEN Append(@, resp.err) ELSE @]
          /\ lockedAtRead' = [lockedAtRead EXCEPT ![p] = mutex[op[p].data.arn] = p]
          /\ mutex' = MutexKVUnlock(MutexKey(op[p].data))
          /\ IF r.err # None
             THEN /\ diags' = [diags EXCEPT ![p] =
                                 [summary |-> "reading ETag", detail |-> r.err]]
                  /\ pc' = [pc EXCEPT ![p] = "deferred"]
             ELSE /\ pc' = [pc EXCEPT ![p] = "write"]
                  /\ UNCHANGED diags
  /\ UNCHANGED <<store, op, tfstate, opsDone, extWrites, extWriter, interfered, lastFailed,
                 ctxDone, canceledWaiting, sent>>
  /\ UNCHANGED <<codecVars, pollVars, grpVars>>
\* The token read going on to the write whatever findETagByARN returned.
KeyFindETagIgnoringError(p) ==
  /\ pc[p] = "read"
  /\ \E resp \in CallResponses(ctxDone[p], DescribeResponses(store[op[p].data.arn]),
                                [etag |-> NoETag, err |-> RequestCanceled]) :
       LET r == findETagByARN(resp)
       IN /\ etagRead' = [etagRead EXCEPT ![p] = r.etag]
          /\ reads' = [reads EXCEPT ![p] = @ + 1]
          /\ faults' = [faults EXCEPT ![p] =
                          IF resp.err # None THEN Append(@, resp.err) ELSE @]
          /\ lockedAtRead' = [lockedAtRead EXCEPT ![p] = mutex[op[p].data.arn] = p]
          /\ pc' = [pc EXCEPT ![p] = "write"]
          /\ UNCHANGED diags
  /\ UNCHANGED <<mutex, store, op, tfstate, opsDone, extWrites, extWriter, interfered,
                 lastFailed, ctxDone, canceledWaiting, sent>>
  /\ UNCHANGED <<codecVars, pollVars, grpVars>>
KeyFindETag(p) ==
  /\ pc[p] = "read"
  /\ \E resp \in CallResponses(ctxDone[p], DescribeResponses(store[op[p].data.arn]),
                                [etag |-> NoETag, err |-> RequestCanceled]) :
       LET r == findETagByARN(resp)
       IN /\ etagRead' = [etagRead EXCEPT ![p] = r.etag]
          /\ reads' = [reads EXCEPT ![p] = @ + 1]
          /\ faults' = [faults EXCEPT ![p] =
                          IF resp.err # None THEN Append(@, resp.err) ELSE @]
          /\ lockedAtRead' = [lockedAtRead EXCEPT ![p] = mutex[op[p].data.arn] = p]
          /\ IF r.err # None
             THEN /\ diags' = [diags EXCEPT ![p] =
                                 [summary |-> "reading ETag", detail |-> r.err]]
                  /\ pc' = [pc EXCEPT ![p] = "deferred"]
             ELSE /\ pc' = [pc EXCEPT ![p] = "write"]
                  /\ UNCHANGED diags
  /\ UNCHANGED <<mutex, store, op, tfstate, opsDone, extWrites, extWriter, interfered,
                 lastFailed, ctxDone, canceledWaiting, sent>>
  /\ UNCHANGED <<codecVars, pollVars, grpVars>>

\* What the remote call of the handler can answer: the store's answer to the
\* request built from the token read, or a service failure.
WriteInput(kind, data, etag) ==
  IF kind = "Delete" THEN DeleteKeyInput(data, etag) ELSE PutKeyInput(data, etag)
WriteResults(kind, st, data, etag) ==
  {IF kind = "Delete" THEN DeleteKey(st, WriteInput(kind, data, etag))
                      ELSE PutKey(st, WriteInput(kind, data, etag)),
   ServiceFailure(st)}

\* The handler's code after the remote call.
AfterWrite(kind, data, old, resp) ==
  IF kind = "Create" THEN CreateAfterPut(data, old, resp)
  ELSE IF kind = "Update" THEN UpdateAfterPut(data, old, resp)
  ELSE DeleteAfterDeleteKey(data, old, resp)

\* Build the request with IfMatch = etag and issue PutKey / DeleteKey; for
\* Create and Update the request is expanded from the model first, and a failed
\* expansion returns before any call.
\* (a write that is refused for its token is tried again with a fresh token)
KeyWriteRetrying(p) ==
  /\ pc[p] = "write"
  /\ \/ /\ op[p].kind # "Delete"
        /\ diags' = [diags EXCEPT ![p] = [summary |-> "expanding", detail |-> "ExpandError"]]
        /\ UNCHANGED <<store, tfstate, sent, faults>>
     \/ \E r \in CallResponses(ctxDone[p],
                                WriteResults(op[p].kind, store[op[p].data.arn],
                                             op[p].data, etagRead[p]),
                                [store |-> store[op[p].data.arn],
                                 err |-> RequestCanceled, size |-> 0]) :
          LET res == AfterWrite(op[p].kind, op[p].data, op[p].old, r)
          IN /\ store' = [store EXCEPT ![op[p].data.arn] = r.store]
             /\ diags' = [diags EXCEPT ![p] = res.diag]
             /\ tfstate' = [tfstate EXCEPT ![p] = res.state]
             /\ sent' = [sent EXCEPT ![p] =
                           Append(@, WriteInput(op[p].kind, op[p].data, etagRead[p]).IfMatch)]
             /\ faults' = [faults EXCEPT ![p] =
                             IF r.err # None THEN Append(@, r.err) ELSE @]
  /\ pc' = [pc EXCEPT ![p] = IF diags'[p].detail = "PreconditionFailed"
                             THEN "read" ELSE "deferred"]
  /\ UNCHANGED <<mutex, op, etagRead, opsDone, extWrites, extWriter, interfered, lockedAtRead,
                 lastFailed, ctxDone, canceledWaiting, reads>>
  /\ UNCHANGED <<codecVars, pollVars, grpVars>>
KeyWrite(p) ==
  /\ pc[p] = "write"
  /\ \/ /\ op[p].kind # "Delete"
        /\ diags' = [diags EXCEPT ![p] = [summary |-> "expanding", detail |-> "ExpandError"]]
        /\ UNCHANGED <<store, tfstate, sent, faults>>
     \/ \E r \in CallResponses(ctxDone[p],
                                WriteResults(op[p].kind, store[op[p].data.arn],
                                             op[p].data, etagRead[p]),
                                [store |-> store[op[p].data.arn],
                                 err |-> RequestCanceled, size |-> 0]) :
          LET res == AfterWrite(op[p].kind, op[p].data, op[p].old, r)
          IN /\ store' = [store EXCEPT ![op[p].data.arn] = r.store]
             /\ diags' = [diags EXCEPT ![p] = res.diag]
             /\ tfstate' = [tfstate EXCEPT ![p] = res.state]
             /\ sent' = [sent EXCEPT ![p] =
                           Append(@, WriteInput(op[p].kind, op[p].data, etagRead[p]).IfMatch)]
             /\ faults' = [faults EXCEPT ![p] =
                             IF r.err # None THEN Append(@, r.err) ELSE @]
  /\ pc' = [pc EXCEPT ![p] = "deferred"]
  /\ UNCHANGED <<mutex, op, etagRead, opsDone, extWrites, extWriter, interfered, lockedAtRead,
                 lastFailed, ctxDone, canceledWaiting, reads>>
  /\ UNCHANGED <<codecVars, pollVars, grpVars>>

\* The handler returning with no deferred Unlock.
KeyReturnWithoutUnlock(p) ==
  /\ pc[p] = "deferred"
  /\ UNCHANGED mutex
  /\ pc' = [pc EXCEPT ![p] = "idle"]
  /\ op' = [op EXCEPT ![p] = NoOp]
  /\ etagRead' = [etagRead EXCEPT ![p] = NoETag]
  /\ interfered' = [interfered EXCEPT ![p] = FALSE]
  /\ lockedAtRead' = [lockedAtRead EXCEPT ![p] = FALSE]
  /\ lastFailed' = [lastFailed EXCEPT ![p] = diags[p] # NoDiag]
  /\ diags' = [diags EXCEPT ![p] = NoDiag]
  /\ ctxDone' = [ctxDone EXCEPT ![p] = FALSE]
  /\ canceledWaiting' = [canceledWaiting EXCEPT ![p] = FALSE]
  /\ reads' = [reads EXCEPT ![p] = 0]
  /\ sent' = [sent EXCEPT ![p] = <<>>]
  /\ faults' = [faults EXCEPT ![p] = <<>>]
  /\ UNCHANGED <<store, tfstate, opsDone, extWrites, extWriter>>
  /\ UNCHANGED <<codecVars, pollVars, grpVars>>
\* The handler returns: the deferred conns.GlobalMutexKV.Unlock(mutexKey) runs.
KeyReturnUnlockOnSuccessOnly(p) ==
  /\ pc[p] = "deferred"
  /\ mutex' = IF diags[p] = NoDiag
              THEN MutexKVUnlock(MutexKey(op[p].data))
              ELSE mutex
  /\ pc' = [pc EXCEPT ![p] = "idle"]
  /\ op' = [op EXCEPT ![p] = NoOp]
  /\ etagRead' = [etagRead EXCEPT ![p] = NoETag]
  /\ interfered' = [interfered EXCEPT ![p] = FALSE]
  /\ lockedAtRead' = [lockedAtRead EXCEPT ![p] = FALSE]
  /\ lastFailed' = [lastFailed EXCEPT ![p] = diags[p] # NoDiag]
  /\ diags' = [diags EXCEPT ![p] = NoDiag]
  /\ ctxDone' = [ctxDone EXCEPT ![p] = FALSE]
  /\ canceledWaiting' = [canceledWaiting EXCEPT ![p] = FALSE]
  /\ reads' = [reads EXCEPT ![p] = 0]
  /\ sent' = [sent EXCEPT ![p] = <<>>]
  /\ faults' = [faults EXCEPT ![p] = <<>>]
  /\ UNCHANGED <<store, tfstate, opsDone, extWrites, extWriter>>
  /\ UNCHANGED <<codecVars, pollVars, grpVars>>
KeyReturn(p) ==
  /\ pc[p] = "deferred"
  /\ mutex' = MutexKVUnlock(MutexKey(op[p].data))
  /\ pc' = [pc EXCEPT ![p] = "idle"]
  /\ op' = [op EXCEPT ![p] = NoOp]
  /\ etagRead' = [etagRead EXCEPT ![p] = NoETag]
  /\ interfered' = [interfered EXCEPT ![p] = FALSE]
  /\ lockedAtRead' = [lockedAtRead EXCEPT ![p] = FALSE]
  /\ lastFailed' = [lastFailed EXCEPT ![p] = diags[p] # NoDiag]
  /\ diags' = [diags EXCEPT ![p] = NoDiag]
  /\ ctxDone' = [ctxDone EXCEPT ![p] = FALSE]
  /\ canceledWaiting' = [canceledWaiting EXCEPT ![p] = FALSE]
  /\ reads' = [reads EXCEPT ![p] = 0]
  /\ sent' = [sent EXCEPT ![p] = <<>>]
  /\ faults' = [faults EXCEPT ![p] = <<>>]
  /\ UNCHANGED <<store, tfstate, opsDone, extWrites, extWriter>>
  /\ UNCHANGED <<codecVars, pollVars, grpVars>>

\* A writer in another process puts a key with the store's current ETag.
ExternalKey == KeyOf(1)
ExternalWrite ==
  /\ extWrites < MaxExtWrites
  /\ \E a \in ARNs :
       /\ store[a].exists
       /\ store' = [store EXCEPT ![a] =
                      PutKey(store[a], [IfMatch |-> store[a].etag, Key |-> ExternalKey,
                                        KvsARN |-> a, Value |-> ExtValue]).store]
       /\ interfered' = [p \in Callers |->
                           interfered[p] \/ (pc[p] = "write" /\ op[p].data.arn = a)]
  /\ extWrites' = extWrites + 1
  /\ UNCHANGED <<mutex, pc, op, etagRead, diags, tfstate, opsDone, lockedAtRead, lastFailed,
                 ctxDone, canceledWaiting, reads, sent, extWriter, faults>>
  /\ UNCHANGED <<codecVars, pollVars, grpVars>>

\* The writer in the other process as two steps: it reads the version token of
\* a store, and later puts its key presenting the token it read.
ExternalRead ==
  /\ extWriter.phase \in {"idle", "done"} /\ extWrites < MaxExtWrites
  /\ \E a \in ARNs :
       /\ store[a].exists
       /\ extWriter' = [phase |-> "read", arn |-> a,
                        etag |-> DescribeKeyValueStore(store[a]).etag, err |-> None]
  /\ UNCHANGED <<mutex, store, pc, op, etagRead, diags, tfstate, opsDone, extWrites,
                 interfered, lockedAtRead, lastFailed, ctxDone, canceledWaiting,
                 reads, sent, faults>>
  /\ UNCHANGED <<codecVars, pollVars, grpVars>>

ExternalPut ==
  /\ extWriter.phase = "read"
  /\ LET a == extWriter.arn
         r == PutKey(store[a], [IfMatch |-> extWriter.etag, Key |-> ExternalKey,
                                KvsARN |-> a, Value |-> ExtValue])
     IN /\ store' = [store EXCEPT ![a] = r.store]
        /\ extWriter' = [extWriter EXCEPT !.phase = "done", !.err = r.err]
        /\ interfered' = [p \in Callers |->
                            interfered[p]
                              \/ (r.err = None /\ pc[p] = "write" /\ op[p].data.arn = a)]
  /\ extWrites' = extWrites + 1
  /\ UNCHANGED <<mutex, pc, op, etagRead, diags, tfstate, opsDone, lockedAtRead, lastFailed,
                 ctxDone, canceledWaiting, reads, sent, faults>>
  /\ UNCHANGED <<codecVars, pollVars, grpVars>>

\* Another process deletes the key with the store's current ETag: the resource
\* disappears from under the process that manages it.
ExternalDelete ==
  /\ extWrites < MaxExtWrites
  /\ \E a \in ARNs :
       LET r == DeleteKey(store[a], [IfMatch |-> store[a].etag, Key |-> ExternalKey,
                                     KvsARN |-> a])
       IN /\ r.err = None
          /\ store' = [store EXCEPT ![a] = r.store]
          /\ interfered' = [p \in Callers |->
                              interfered[p] \/ (pc[p] = "write" /\ op[p].data.arn = a)]
  /\ extWrites' = extWrites + 1
  /\ UNCHANGED <<mutex, pc, op, etagRead, diags, tfstate, opsDone, lockedAtRead, lastFailed,
                 ctxDone, canceledWaiting, reads, sent, extWriter, faults>>
  /\ UNCHANGED <<codecVars, pollVars, grpVars>>

\* The context of a running handler is canceled by its caller: while the
\* handler waits for the lock, before its token read or before its write.
KeyCancel(p) ==
  /\ pc[p] \in {"lock", "read", "write"} /\ ~ctxDone[p]
  /\ ctxDone' = [ctxDone EXCEPT ![p] = TRUE]
  /\ canceledWaiting' = [canceledWaiting EXCEPT ![p] =
                           pc[p] = "lock" /\ ~MutexKVFree(MutexKey(op[p].data))]
  /\ UNCHANGED <<mutex, store, pc, op, etagRead, diags, tfstate, opsDone, extWrites, extWriter, faults,
                 interfered, lockedAtRead, lastFailed, reads, sent>>
  /\ UNCHANGED <<codecVars, pollVars, grpVars>>

CodecIdle ==
  /\ cparts = <<>> /\ carity = 0 /\ callow = FALSE /\ cid = <<>>
  /\ cenc = [id |-> <<>>, err |-> None] /\ cdec = [parts |-> <<>>, err |-> None]
  /\ cdarity = 0 /\ cphase = "off" /\ imported = NoImport
  /\ kread = NoKeyRead /\ uig = NoUserInGroup /\ members = {}

KeyNext ==
  \/ \E p \in Callers : KeyCreateCall(p)
  \/ \E p \in Callers : KeyUpdateCall(p)
  \/ \E p \in Callers : KeyDeleteCall(p)
  \/ \E p \in Callers : KeyLock(p)
  \/ \E p \in Callers : KeyFindETag(p)
  \/ \E p \in Callers : KeyWrite(p)
  \/ \E p \in Callers : KeyReturn(p)
  \/ ExternalWrite

\* The handlers of the resource whose key a writer in another process also
\* writes, with that writer reading the token and writing in two steps.
RaceCallers == {p \in Callers : KeyOf(p) = ExternalKey}
KeyRaceNext ==
  \/ \E p \in RaceCallers : KeyCreateCall(p)
  \/ \E p \in RaceCallers : KeyUpdateCall(p)
  \/ \E p \in RaceCallers : KeyDeleteCall(p)
  \/ \E p \in RaceCallers : KeyLock(p)
  \/ \E p \in RaceCallers : KeyFindETag(p)
  \/ \E p \in RaceCallers : KeyWrite(p)
  \/ \E p \in RaceCallers : KeyReturn(p)
  \/ ExternalRead
  \/ ExternalPut

\* The handlers with another process that deletes a key.
KeyGoneNext ==
  \/ \E p \in Callers : KeyCreateCall(p)
  \/ \E p \in Callers : KeyUpdateCall(p)
  \/ \E p \in Callers : KeyDeleteCall(p)
  \/ \E p \in Callers : KeyLock(p)
  \/ \E p \in Callers : KeyFindETag(p)
  \/ \E p \in Callers : KeyWrite(p)
  \/ \E p \in Callers : KeyReturn(p)
  \/ ExternalDelete

\* The handlers alone, and the steps a started handler takes by itself.
KeyLiveNext ==
  \/ \E p \in Callers : KeyCreateCall(p)
  \/ \E p \in Callers : KeyUpdateCall(p)
  \/ \E p \in Callers : KeyDeleteCall(p)
  \/ \E p \in Callers : KeyLock(p)
  \/ \E p \in Callers : KeyFindETag(p)
  \/ \E p \in Callers : KeyWrite(p)
  \/ \E p \in Callers : KeyReturn(p)
KeyHolderStep(p) == KeyFindETag(p) \/ KeyWrite(p) \/ KeyReturn(p)

\* The handlers with callers that may cancel the context of a running handler.
KeyCtxNext ==
  \/ \E p \in Callers : KeyCreateCall(p)
  \/ \E p \in Callers : KeyUpdateCall(p)
  \/ \E p \in Callers : KeyDeleteCall(p)
  \/ \E p \in Callers : KeyLock(p)
  \/ \E p \in Callers : KeyFindETag(p)
  \/ \E p \in Callers : KeyWrite(p)
  \/ \E p \in Callers : KeyReturn(p)
  \/ \E p \in Callers : KeyCancel(p)
  \/ ExternalWrite

(***************************************************************************)
(* User group waits: the state poller                                      *)
(***************************************************************************)
userGroupStatusActive == "active"
userGroupStatusCreating == "creating"
userGroupStatusDeleting == "deleting"
userGroupStatusModifying == "modifying"

Statuses == {userGroupStatusActive, userGroupStatusCreating,
             userGroupStatusDeleting, userGroupStatusModifying}
Absent == "absent"
\* The state label statusUserGroup returns with a nil object.
NotFoundLabel == ""

MinTimeout == 10
Delay == 30
\* The timeouts a caller may pass, in seconds.
MaxTimeoutSteps == 8
Timeouts == {MinTimeout * k : k \in 1..MaxTimeoutSteps}

NoResponse == [err |-> None, groups |-> <<None>>]
NoObs == [found |-> FALSE, label |-> None, obj |-> None, raw |-> NoResponse]
NoOutcome == [obj |-> None, label |-> None, err |-> None]
NoConf == [kind |-> None, Pending |-> {}, Target |-> {}, Timeout |-> 0,
           MinTimeout |-> 0, Delay |-> 0]

\* ---- the remote service ----
\* DescribeUserGroups for one id: the group, no group, a not-found fault or
\* another failure.
DescribeUserGroupsResponses(g) ==
  (IF g = Absent
   THEN {[err |-> "UserGroupNotFoundFault", groups |-> <<>>], [err |-> None, groups |-> <<>>]}
   ELSE {[err |-> None, groups |-> <<g>>]})
  \cup {[err |-> "ServiceUnavailable", groups |-> <<>>]}

\* ---- the resource's code ----
\* tfresource.AssertSingleValueResult
AssertSingleValueResult(groups) ==
  IF Len(groups) = 0 THEN [obj |-> None, err |-> "EmptyResultError"]
  ELSE IF Len(groups) > 1 THEN [obj |-> None, err |-> "TooManyResultsError"]
  ELSE [obj |-> groups[1], err |-> None]

\* retry.NotFound
NotFound(err) == err \in {"NotFoundError", "EmptyResultError"}

\* findUserGroupByID -> findUserGroup -> findUserGroups
findUserGroupByID(resp) ==
  IF resp.err = "UserGroupNotFoundFault" THEN [obj |-> None, err |-> "NotFoundError"]
  ELSE IF resp.err # None THEN [obj |-> None, err |-> resp.err]
  ELSE AssertSingleValueResult(resp.groups)

\* statusUserGroup: (object, state, error)
statusUserGroupKeepingNotFound(resp) ==
  LET out == findUserGroupByID(resp)
  IN IF out.err # None THEN [obj |-> None, state |-> NotFoundLabel, err |-> out.err]
     ELSE [obj |-> out.obj, state |-> out.obj, err |-> None]
\* Every error of the lookup reads as "no such group".
statusUserGroupSwallowingErrors(resp) ==
  LET out == findUserGroupByID(resp)
  IN IF out.err # None THEN [obj |-> None, state |-> NotFoundLabel, err |-> None]
     ELSE [obj |-> out.obj, state |-> out.obj, err |-> None]
statusUserGroup(resp) ==
  LET out == findUserGroupByID(resp)
  IN IF NotFound(out.err) THEN [obj |-> None, state |-> NotFoundLabel, err |-> None]
     ELSE IF out.err # None THEN [obj |-> None, state |-> NotFoundLabel, err |-> out.err]
     ELSE [obj |-> out.obj, state |-> out.obj, err |-> None]

\* The StateChangeConf each wait builds.
waitUserGroupCreatedConfNoModifying(timeout) ==
  [kind |-> "Created",
   Pending |-> {userGroupStatusCreating},
   Target |-> {userGroupStatusActive},
   Timeout |-> timeout, MinTimeout |-> MinTimeout, Delay |-> Delay]
waitUserGroupCreatedConfDoubleDelay(timeout) ==
  [kind |-> "Created",
   Pending |-> {userGroupStatusCreating, userGroupStatusModifying},
   Target |-> {userGroupStatusActive},
   Timeout |-> timeout, MinTimeout |-> MinTimeout, Delay |-> 2 * Delay]
waitUserGroupCreatedConf(timeout) ==
  [kind |-> "Created",
   Pending |-> {userGroupStatusCreating, userGroupStatusModifying},
   Target |-> {userGroupStatusActive},
   Timeout |-> timeout, MinTimeout |-> MinTimeout, Delay |-> Delay]

waitUserGroupUpdatedConfWithCreating(timeout) ==
  [kind |-> "Updated",
   Pending |-> {userGroupStatusCreating, userGroupStatusModifying},
   Target |-> {userGroupStatusActive},
   Timeout |-> timeout, MinTimeout |-> MinTimeout, Delay |-> Delay]
waitUserGroupUpdatedConfNotFoundPending(timeout) ==
  [kind |-> "Updated",
   Pending |-> {userGroupStatusModifying, NotFoundLabel},
   Target |-> {userGroupStatusActive},
   Timeout |-> timeout, MinTimeout |-> MinTimeout, Delay |-> Delay]
\* The update wait with the target status also listed as pending.
waitUserGroupUpdatedConfActivePending(timeout) ==
  [kind |-> "Updated",
   Pending |-> {userGroupStatusModifying, userGroupStatusActive},
   Target |-> {userGroupStatusActive},
   Timeout |-> timeout, MinTimeout |-> MinTimeout, Delay |-> Delay]
waitUserGroupUpdatedConf(timeout) ==
  [kind |-> "Updated",
   Pending |-> {userGroupStatusModifying},
   Target |-> {userGroupStatusActive},
   Timeout |-> timeout, MinTimeout |-> MinTimeout, Delay |-> Delay]

waitUserGroupDeletedConfNoPending(timeout) ==
  [kind |-> "Deleted",
   Pending |-> {},
   Target |-> {},
   Timeout |-> timeout, MinTimeout |-> MinTimeout, Delay |-> Delay]
waitUserGroupDeletedConfNoMinTimeout(timeout) ==
  [kind |-> "Deleted",
   Pending |-> {userGroupStatusDeleting},
   Target |-> {},
   Timeout |-> timeout, MinTimeout |-> 0, Delay |-> Delay]
waitUserGroupDeletedConf(timeout) ==
  [kind |-> "Deleted",
   Pending |-> {userGroupStatusDeleting},
   Target |-> {},
   Timeout |-> timeout, MinTimeout |-> MinTimeout, Delay |-> Delay]

WaitConfs == {waitUserGroupCreatedConf(t) : t \in Timeouts}
             \cup {waitUserGroupUpdatedConf(t) : t \in Timeouts}
             \cup {waitUserGroupDeletedConf(t) : t \in Timeouts}

\* ---- StateChangeConf.WaitForStateContext ----
\* One observation decides the session: [next, err].
\* An unexpected state reported with the error of a timeout.
ClassifyUnexpectedAsTimeout(c, r) ==
  IF r.err # None THEN [next |-> "Failed", err |-> r.err]
  ELSE IF r.obj = None
  THEN (IF c.Target = {} THEN [next |-> "Succeeded", err |-> None]
        ELSE IF NotFoundLabel \in c.Pending THEN [next |-> "Polling", err |-> None]
        ELSE [next |-> "Failed", err |-> "NotFoundError"])
  ELSE IF r.state \in c.Target THEN [next |-> "Succeeded", err |-> None]
  ELSE IF r.state \in c.Pending THEN [next |-> "Polling", err |-> None]
  ELSE [next |-> "Failed", err |-> "TimeoutError"]
Classify(c, r) ==
  IF r.err # None THEN [next |-> "Failed", err |-> r.err]
  ELSE IF r.obj = None
  THEN (IF c.Target = {} THEN [next |-> "Succeeded", err |-> None]
        ELSE IF NotFoundLabel \in c.Pending THEN [next |-> "Polling", err |-> None]
        ELSE [next |-> "Failed", err |-> "NotFoundError"])
  ELSE IF r.state \in c.Target THEN [next |-> "Succeeded", err |-> None]
  ELSE IF r.state \in c.Pending THEN [next |-> "Polling", err |-> None]
  ELSE [next |-> "Failed", err |-> "UnexpectedStateError"]

PollIdle ==
  /\ group = Absent /\ conf = NoConf /\ pstate = "Idle" /\ pphase = "end"
  /\ now = 0 /\ refreshes = 0 /\ lastRefreshAt = 0 - 1 /\ lastObs = NoObs
  /\ outcome = NoOutcome /\ allPending = TRUE /\ minGap = 0 - 1
  /\ pollCtxDone = FALSE

PollInit ==
  /\ group \in Statuses \cup {Absent}
  /\ conf \in WaitConfs
  /\ pstate = "Polling" /\ pphase = "delay"
  /\ now = 0 /\ refreshes = 0 /\ lastRefreshAt = 0 - 1 /\ lastObs = NoObs
  /\ outcome = NoOutcome /\ allPending = TRUE /\ minGap = 0 - 1
  /\ pollCtxDone = FALSE

\* The session ends with the timeout: it carries the last observation.
TimeOut ==
  /\ pstate' = "TimedOut" /\ pphase' = "end" /\ now' = conf.Timeout
  /\ outcome' = [obj |-> lastObs.obj, label |-> lastObs.label, err |-> "TimeoutError"]

\* Sleep Delay before the first refresh.
PollDelay ==
  /\ pstate = "Polling" /\ pphase = "delay" /\ ~pollCtxDone
  /\ IF now + conf.Delay >= conf.Timeout
     THEN TimeOut
     ELSE /\ now' = now + conf.Delay /\ pphase' = "refresh"
          /\ UNCHANGED <<pstate, outcome>>
  /\ UNCHANGED <<group, conf, refreshes, lastRefreshAt, lastObs, allPending, minGap,
                 pollCtxDone>>
  /\ UNCHANGED <<keyVars, codecVars, grpVars>>

\* The refresh function is called.
PollRefreshCall ==
  /\ pstate = "Polling" /\ pphase = "refresh" /\ ~pollCtxDone
  /\ refreshes' = refreshes + 1
  /\ lastRefreshAt' = now
  /\ minGap' = IF lastRefreshAt < 0 THEN minGap
               ELSE IF minGap < 0 \/ now - lastRefreshAt < minGap THEN now - lastRefreshAt
               ELSE minGap
  /\ pphase' = "fetching"
  /\ UNCHANGED <<group, conf, pstate, now, lastObs, outcome, allPending, pollCtxDone>>
  /\ UNCHANGED <<keyVars, codecVars, grpVars>>

\* The refresh function got resp from the service: its observation is
\* classified.
RefreshReturn(resp) ==
  LET r == statusUserGroup(resp)
      c == Classify(conf, r)
  IN /\ lastObs' = [found |-> r.err = None /\ r.obj # None,
                    label |-> IF r.err = None THEN r.state ELSE None,
                    obj |-> r.obj,
                    raw |-> resp]
     /\ allPending' = (allPending /\ c.next = "Polling")
     /\ pstate' = c.next
     /\ pphase' = IF c.next = "Polling" THEN "sleep" ELSE "end"
     /\ outcome' = IF c.next = "Polling" THEN outcome
                   ELSE [obj |-> r.obj,
                         label |-> IF r.err = None THEN r.state ELSE None,
                         err |-> c.err]
     /\ UNCHANGED <<conf, now, refreshes, lastRefreshAt, minGap, pollCtxDone>>

\* A refresh that removes the group it describes.
PollRefreshReturnDeleting ==
  /\ pstate = "Polling" /\ pphase = "fetching" /\ ~pollCtxDone
  /\ \E resp \in DescribeUserGroupsResponses(group) : RefreshReturn(resp)
  /\ group' = Absent
  /\ UNCHANGED <<keyVars, codecVars, grpVars>>
\* The refresh function returns.
PollRefreshReturn ==
  /\ pstate = "Polling" /\ pphase = "fetching" /\ ~pollCtxDone
  /\ \E resp \in DescribeUserGroupsResponses(group) : RefreshReturn(resp)
  /\ UNCHANGED group
  /\ UNCHANGED <<keyVars, codecVars, grpVars>>

\* Sleep between two refreshes: MinTimeout at least, possibly more.
MaxSleep(c) == 2 * c.MinTimeout
\* A sleep that does not look at the timeout.
PollSleepPastTimeout ==
  /\ pstate = "Polling" /\ pphase = "sleep" /\ ~pollCtxDone
  /\ \E d \in {conf.MinTimeout, MaxSleep(conf)} :
       /\ now' = now + d
       /\ pphase' = "refresh"
       /\ UNCHANGED <<pstate, outcome>>
  /\ UNCHANGED <<group, conf, refreshes, lastRefreshAt, lastObs, allPending, minGap,
                 pollCtxDone>>
  /\ UNCHANGED <<keyVars, codecVars, grpVars>>
PollSleepIgnoringDone ==
  /\ pstate = "Polling" /\ pphase = "sleep"
  /\ \E d \in {conf.MinTimeout, MaxSleep(conf)} :
       IF now + d >= conf.Timeout
       THEN TimeOut
       ELSE /\ now' = now + d /\ pphase' = "refresh"
            /\ UNCHANGED <<pstate, outcome>>
  /\ UNCHANGED <<group, conf, refreshes, lastRefreshAt, lastObs, allPending, minGap,
                 pollCtxDone>>
  /\ UNCHANGED <<keyVars, codecVars, grpVars>>
PollSleep ==
  /\ pstate = "Polling" /\ pphase = "sleep" /\ ~pollCtxDone
  /\ \E d \in {conf.MinTimeout, MaxSleep(conf)} :
       IF now + d >= conf.Timeout
       THEN TimeOut
       ELSE /\ now' = now + d /\ pphase' = "refresh"
            /\ UNCHANGED <<pstate, outcome>>
  /\ UNCHANGED <<group, conf, refreshes, lastRefreshAt, lastObs, allPending, minGap,
                 pollCtxDone>>
  /\ UNCHANGED <<keyVars, codecVars, grpVars>>

\* The caller's context is canceled while the session runs: during the
\* initial delay, during a sleep or during a refresh call.
PollCancel ==
  /\ pstate = "Polling" /\ ~pollCtxDone
  /\ pollCtxDone' = TRUE
  /\ UNCHANGED <<group, conf, pstate, pphase, now, refreshes, lastRefreshAt, lastObs,
                 outcome, allPending, minGap>>
  /\ UNCHANGED <<keyVars, codecVars, grpVars>>

\* The session sees that its context is done and returns.
PollCtxDone ==
  /\ pstate = "Polling" /\ pollCtxDone
  /\ pstate' = "Canceled" /\ pphase' = "end"
  /\ outcome' = [obj |-> None, label |-> None, err |-> "Canceled"]
  /\ UNCHANGED <<group, conf, now, refreshes, lastRefreshAt, lastObs, allPending, minGap,
                 pollCtxDone>>
  /\ UNCHANGED <<keyVars, codecVars, grpVars>>

\* The remote group moves on by itself, while the session runs and after it
\* has ended.
GroupChange ==
  /\ pstate # "Idle"
  /\ \E g \in (Statuses \cup {Absent}) \ {group} : group' = g
  /\ UNCHANGED <<conf, pstate, pphase, now, refreshes, lastRefreshAt, lastObs,
                 outcome, allPending, minGap, pollCtxDone>>
  /\ UNCHANGED <<keyVars, codecVars, grpVars>>

KeyIdle ==
  /\ mutex = [l \in LockIds |-> NoCaller]
  /\ store = [a \in ARNs |-> EmptyStore(TRUE)]
  /\ pc = [p \in Callers |-> "idle"]
  /\ op = [p \in Callers |-> NoOp]
  /\ etagRead = [p \in Callers |-> NoETag]
  /\ diags = [p \in Callers |-> NoDiag]
  /\ tfstate = [p \in Callers |-> NoState]
  /\ opsDone = 0
  /\ extWrites = 0
  /\ extWriter = NoWriter
  /\ faults = [p \in Callers |-> <<>>]
  /\ interfered = [p \in Callers |-> FALSE]
  /\ lockedAtRead = [p \in Callers |-> FALSE]
  /\ lastFailed = [p \in Callers |-> FALSE]
  /\ ctxDone = [p \in Callers |-> FALSE]
  /\ canceledWaiting = [p \in Callers |-> FALSE]
  /\ reads = [p \in Callers |-> 0]
  /\ sent = [p \in Callers |-> <<>>]

PollNext ==
  \/ PollDelay
  \/ PollRefreshCall
  \/ PollRefreshReturn
  \/ PollSleep
  \/ PollCancel
  \/ PollCtxDone
  \/ GroupChange

\* The session's own steps: it runs until it returns.
PollStep ==
  PollDelay \/ PollRefreshCall \/ PollRefreshReturn \/ PollSleep \/ PollCtxDone

\* ---- a scripted refresh: pending, pending, target ----
\* A create or update wait starts; the group is in a pending state.
PollSeqInit ==
  /\ conf \in {c \in WaitConfs : c.Target # {}}
  /\ group \in conf.Pending
  /\ pstate = "Polling" /\ pphase = "delay"
  /\ now = 0 /\ refreshes = 0 /\ lastRefreshAt = 0 - 1 /\ lastObs = NoObs
  /\ outcome = NoOutcome /\ allPending = TRUE /\ minGap = 0 - 1
  /\ pollCtxDone = FALSE

\* The first two refreshes find the group in a pending state, the third in a
\* target state.
SeqRefreshReturn ==
  /\ pstate = "Polling" /\ pphase = "fetching" /\ ~pollCtxDone
  /\ \E g \in (IF refreshes < 3 THEN conf.Pending ELSE conf.Target) :
       /\ group' = g
       /\ RefreshReturn([err |-> None, groups |-> <<g>>])
  /\ UNCHANGED <<keyVars, codecVars, grpVars>>

PollSeqNext ==
  \/ PollDelay
  \/ PollRefreshCall
  \/ SeqRefreshReturn
  \/ PollSleep


(***************************************************************************)
(* User group resource: the Create / Read / Update / Delete handlers       *)
(***************************************************************************)
GroupId == "g1"
GroupARN == "arn:g1"
Users == {"u1", "u2"}
\* The resource's own tags and the provider's default tags.
TagSets == {{}, {"t"}}
DefaultTagSets == {{}, {"d"}}

NoGroupAttrs == [arn |-> None, user_group_id |-> None]
NoGroupData == [id |-> "", isNew |-> FALSE, attrs |-> NoGroupAttrs]
NoGroupReq == [kind |-> None, tags |-> {}, defaultTags |-> {}, user_ids |-> {},
               old_user_ids |-> {}, engineChanged |-> FALSE, tagsChanged |-> FALSE]
\* A slice field of a request: nil (unset), or the elements it holds.
NilSet == [nil |-> TRUE, elems |-> {}]
SetOf(s) == [nil |-> FALSE, elems |-> s]
NoGroupInput == [Tags |-> NilSet, UserGroupId |-> None, UserIds |-> NilSet]

\* ---- the remote service ----
\* CreateUserGroup: a new group starts in "creating" and the output carries
\* the id of the group, the one the request asked for; an id in use is refused;
\* a partition may not support the operation as requested; the service may
\* fail. An answer with an error carries no output.
CreateUserGroupResponses(g, input) ==
  (IF g = Absent
   THEN {[group |-> userGroupStatusCreating, err |-> None,
          output |-> [UserGroupId |-> input.UserGroupId]]}
   ELSE {[group |-> g, err |-> "UserGroupAlreadyExistsFault",
          output |-> [UserGroupId |-> None]]})
  \cup {[group |-> g, err |-> "UnsupportedOperation", output |-> [UserGroupId |-> None]],
        [group |-> g, err |-> "ServiceUnavailable", output |-> [UserGroupId |-> None]]}

\* ModifyUserGroup: an active group goes to "modifying".
ModifyUserGroupResponses(g) ==
  (IF g = Absent THEN {[group |-> g, err |-> "UserGroupNotFoundFault"]}
   ELSE IF g = userGroupStatusActive
   THEN {[group |-> userGroupStatusModifying, err |-> None]}
   ELSE {[group |-> g, err |-> "InvalidUserGroupStateFault"]})
  \cup {[group |-> g, err |-> "ServiceUnavailable"]}

\* DeleteUserGroup: an active group goes to "deleting"; a group that is not
\* there answers with the not-found fault.
DeleteUserGroupResponses(g) ==
  (IF g = Absent THEN {[group |-> g, err |-> "UserGroupNotFoundFault"]}
   ELSE IF g = userGroupStatusActive
   THEN {[group |-> userGroupStatusDeleting, err |-> None]}
   ELSE {[group |-> g, err |-> "InvalidUserGroupStateFault"]})
  \cup {[group |-> g, err |-> "ServiceUnavailable"]}

\* createTags (AddTagsToResource)
CreateTagsErrors == {None, "UnsupportedOperation", "ServiceUnavailable"}

\* ---- the resource's code ----
\* getTagsIn(ctx): the default tags merged with the resource's own tags; nil
\* when there are none.
getTagsIn(req) ==
  IF req.defaultTags \cup req.tags = {} THEN NilSet
  ELSE SetOf(req.defaultTags \cup req.tags)

\* aws.ToString: the empty string for a nil pointer.
AwsToString(s) == IF s = None THEN "" ELSE s

\* errs.IsUnsupportedOperationInPartitionError(partition, err)
IsUnsupportedOperationInPartitionError(err) == err = "UnsupportedOperation"

\* input := &elasticache.CreateUserGroupInput{...}; UserIds is set when the
\* configured set is not empty.
CreateUserGroupInput(req) ==
  [Tags |-> getTagsIn(req), UserGroupId |-> GroupId,
   UserIds |-> IF req.user_ids # {} THEN SetOf(req.user_ids) ELSE NilSet]

\* Create leaving the id unset until the create wait has ended.
resourceUserGroupCreateAfterCreateUserGroupWithoutSetId(input, d, output, err) ==
  IF input.Tags # NilSet /\ IsUnsupportedOperationInPartitionError(err)
  THEN [input |-> [input EXCEPT !.Tags = NilSet], d |-> d, diag |-> NoDiag,
        next |-> "create"]
  ELSE IF err # None
  THEN [input |-> input, d |-> d,
        diag |-> [summary |-> "creating User Group", detail |-> err], next |-> "done"]
  ELSE [input |-> input, d |-> d, diag |-> NoDiag, next |-> "wait"]
\* resourceUserGroupCreate from the answer of CreateUserGroup on: the call is
\* made again without tags when tags were sent and the partition does not
\* support them; an error returns; else the id is set to the id of the output
\* and the wait starts.
resourceUserGroupCreateAfterCreateUserGroup(input, d, output, err) ==
  IF input.Tags # NilSet /\ IsUnsupportedOperationInPartitionError(err)
  THEN [input |-> [input EXCEPT !.Tags = NilSet], d |-> d, diag |-> NoDiag,
        next |-> "create"]
  ELSE IF err # None
  THEN [input |-> input, d |-> d,
        diag |-> [summary |-> "creating User Group", detail |-> err], next |-> "done"]
  ELSE [input |-> input, d |-> [d EXCEPT !.id = AwsToString(output.UserGroupId)],
        diag |-> NoDiag, next |-> "wait"]

\* resourceUserGroupCreate from the end of waitUserGroupCreated on.
resourceUserGroupCreateAfterWait(input, req, err) ==
  IF err # None
  THEN [diag |-> [summary |-> "waiting for User Group create", detail |-> err],
        next |-> "done"]
  ELSE IF input.Tags = NilSet /\ getTagsIn(req).elems # {}
  THEN [diag |-> NoDiag, next |-> "tag"]
  ELSE [diag |-> NoDiag, next |-> "read"]

\* Create ignoring the unsupported-operation error of createTags whatever tags
\* the resource has.
resourceUserGroupCreateAfterCreateTagsAlwaysIgnoring(req, err) ==
  IF IsUnsupportedOperationInPartitionError(err)
  THEN [diag |-> NoDiag, next |-> "read"]
  ELSE IF err # None
  THEN [diag |-> [summary |-> "setting User Group tags", detail |-> err],
        next |-> "done"]
  ELSE [diag |-> NoDiag, next |-> "read"]
\* resourceUserGroupCreate from the answer of createTags on.
resourceUserGroupCreateAfterCreateTags(req, err) ==
  IF req.tags = {} /\ IsUnsupportedOperationInPartitionError(err)
  THEN [diag |-> NoDiag, next |-> "read"]
  ELSE IF err # None
  THEN [diag |-> [summary |-> "setting User Group tags", detail |-> err],
        next |-> "done"]
  ELSE [diag |-> NoDiag, next |-> "read"]

\* Read removing a resource that is not found whether it is new or not.
resourceUserGroupReadIgnoringIsNew(d, resp) ==
  LET out == findUserGroupByID(resp)
  IN IF NotFound(out.err)
     THEN [d |-> [d EXCEPT !.id = ""], diag |-> NoDiag]
     ELSE IF out.err # None
     THEN [d |-> d, diag |-> [summary |-> "reading User Group", detail |-> out.err]]
     ELSE [d |-> [d EXCEPT !.attrs = [arn |-> GroupARN, user_group_id |-> GroupId]],
           diag |-> NoDiag]
\* resourceUserGroupRead: [d, diag]
resourceUserGroupRead(d, resp) ==
  LET out == findUserGroupByID(resp)
  IN IF ~d.isNew /\ NotFound(out.err)
     THEN [d |-> [d EXCEPT !.id = ""], diag |-> NoDiag]
     ELSE IF out.err # None
     THEN [d |-> d, diag |-> [summary |-> "reading User Group", detail |-> out.err]]
     ELSE [d |-> [d EXCEPT !.attrs = [arn |-> GroupARN, user_group_id |-> GroupId]],
           diag |-> NoDiag]

\* d.HasChangesExcept(names.AttrTags, names.AttrTagsAll)
HasChangesExceptTags(req) == req.engineChanged \/ req.old_user_ids # req.user_ids

\* The request with the two differences taken the other way round.
ModifyUserGroupInputSwapped(req) ==
  LET o == req.old_user_ids
      n == req.user_ids
      add == o \ n
      del == n \ o
  IN [UserGroupId |-> GroupId,
      Engine |-> IF req.engineChanged THEN "engine" ELSE None,
      UserIdsToAdd |-> IF o # n /\ add # {} THEN SetOf(add) ELSE NilSet,
      UserIdsToRemove |-> IF o # n /\ del # {} THEN SetOf(del) ELSE NilSet]
\* input := &elasticache.ModifyUserGroupInput{...}
ModifyUserGroupInput(req) ==
  LET o == req.old_user_ids
      n == req.user_ids
      add == n \ o
      del == o \ n
  IN [UserGroupId |-> GroupId,
      Engine |-> IF req.engineChanged THEN "engine" ELSE None,
      UserIdsToAdd |-> IF o # n /\ add # {} THEN SetOf(add) ELSE NilSet,
      UserIdsToRemove |-> IF o # n /\ del # {} THEN SetOf(del) ELSE NilSet]

\* resourceUserGroupUpdate from the answer of ModifyUserGroup on.
resourceUserGroupUpdateAfterModifyUserGroup(err) ==
  IF err # None
  THEN [diag |-> [summary |-> "updating User Group", detail |-> err], next |-> "done"]
  ELSE [diag |-> NoDiag, next |-> "wait"]

\* resourceUserGroupUpdate from the end of waitUserGroupUpdated on.
resourceUserGroupUpdateAfterWait(err) ==
  IF err # None
  THEN [diag |-> [summary |-> "waiting for User Group update", detail |-> err],
        next |-> "done"]
  ELSE [diag |-> NoDiag, next |-> "read"]

\* Delete reporting the not-found fault like any other error.
resourceUserGroupDeleteAfterDeleteUserGroupReportingNotFound(err) ==
  IF err # None
  THEN [diag |-> [summary |-> "deleting User Group", detail |-> err], next |-> "done"]
  ELSE [diag |-> NoDiag, next |-> "wait"]
\* Delete returning as soon as DeleteUserGroup accepted the request.
resourceUserGroupDeleteAfterDeleteUserGroupNotWaiting(err) ==
  IF err = "UserGroupNotFoundFault" THEN [diag |-> NoDiag, next |-> "done"]
  ELSE IF err # None
  THEN [diag |-> [summary |-> "deleting User Group", detail |-> err], next |-> "done"]
  ELSE [diag |-> NoDiag, next |-> "done"]
\* resourceUserGroupDelete from the answer of DeleteUserGroup on.
resourceUserGroupDeleteAfterDeleteUserGroup(err) ==
  IF err = "UserGroupNotFoundFault" THEN [diag |-> NoDiag, next |-> "done"]
  ELSE IF err # None
  THEN [diag |-> [summary |-> "deleting User Group", detail |-> err], next |-> "done"]
  ELSE [diag |-> NoDiag, next |-> "wait"]

\* resourceUserGroupDelete from the end of waitUserGroupDeleted on.
resourceUserGroupDeleteAfterWait(err) ==
  IF err # None
  THEN [diag |-> [summary |-> "waiting for User Group delete", detail |-> err],
        next |-> "done"]
  ELSE [diag |-> NoDiag, next |-> "done"]

\* ---- the handlers as steps ----
GroupIdle ==
  /\ gpc = "idle" /\ greq = NoGroupReq /\ ginput = NoGroupInput
  /\ gdata = NoGroupData /\ gdiags = NoDiag /\ gcalls = <<>>

\* A resource an earlier run created and read.
ExistingGroupData ==
  [id |-> GroupId, isNew |-> FALSE,
   attrs |-> [arn |-> GroupARN, user_group_id |-> GroupId]]

\* The resource is in the state or not, no handler runs, and the remote group
\* is in any status or absent (other actors create and delete groups).
GroupInit ==
  /\ gpc = "idle" /\ greq = NoGroupReq /\ ginput = NoGroupInput
  /\ gdata \in {NoGroupData, ExistingGroupData}
  /\ gdiags = NoDiag /\ gcalls = <<>>
  /\ group \in Statuses \cup {Absent}
  /\ conf = NoConf /\ pstate = "Idle" /\ pphase = "end"
  /\ now = 0 /\ refreshes = 0 /\ lastRefreshAt = 0 - 1 /\ lastObs = NoObs
  /\ outcome = NoOutcome /\ allPending = TRUE /\ minGap = 0 - 1
  /\ pollCtxDone = FALSE

\* stateConf.WaitForStateContext(ctx) starts with the timeout of the handler.
StartWait(c) ==
  /\ conf' = c
  /\ pstate' = "Polling" /\ pphase' = "delay"
  /\ now' = 0 /\ refreshes' = 0 /\ lastRefreshAt' = 0 - 1 /\ lastObs' = NoObs
  /\ outcome' = NoOutcome /\ allPending' = TRUE /\ minGap' = 0 - 1
  /\ pollCtxDone' = FALSE

NoWait ==
  UNCHANGED <<conf, pstate, pphase, now, refreshes, lastRefreshAt, lastObs, outcome,
              allPending, minGap, pollCtxDone>>

\* resourceUserGroupCreate is called for a resource that is not in the state:
\* the SDK marks the data as a new resource.
GroupCreateCall ==
  /\ gpc = "idle" /\ gdata.id = ""
  /\ \E t \in TagSets, dt \in DefaultTagSets, u \in SUBSET Users :
       LET req == [NoGroupReq EXCEPT !.kind = "Create", !.tags = t,
                                     !.defaultTags = dt, !.user_ids = u]
       IN /\ greq' = req
          /\ ginput' = CreateUserGroupInput(req)
  /\ gdata' = [gdata EXCEPT !.isNew = TRUE]
  /\ gpc' = "create"
  /\ gdiags' = NoDiag /\ gcalls' = <<>>
  /\ UNCHANGED pollVars
  /\ UNCHANGED <<keyVars, codecVars>>

\* output, err := conn.CreateUserGroup(ctx, input), and the code up to the
\* next remote call.
GroupCreateUserGroup ==
  /\ gpc = "create"
  /\ \E r \in CreateUserGroupResponses(group, ginput), t \in Timeouts :
       LET res == resourceUserGroupCreateAfterCreateUserGroup(ginput, gdata, r.output,
                                                              r.err)
       IN /\ group' = r.group
          /\ gcalls' = Append(gcalls, [api |-> "CreateUserGroup", input |-> ginput,
                                       err |-> r.err,
                                       out |-> IF r.err = None
                                               THEN <<r.output.UserGroupId>> ELSE <<>>])
          /\ ginput' = res.input
          /\ gdata' = res.d
          /\ gdiags' = res.diag
          /\ gpc' = res.next
          /\ IF res.next = "wait" THEN StartWait(waitUserGroupCreatedConf(t))
             ELSE NoWait
  /\ UNCHANGED greq
  /\ UNCHANGED <<keyVars, codecVars>>

\* The wait of the running handler returned.
GroupWaitReturn ==
  /\ gpc = "wait" /\ pstate \in {"Succeeded", "Failed", "TimedOut", "Canceled"}
  /\ LET res == IF greq.kind = "Create"
                THEN resourceUserGroupCreateAfterWait(ginput, greq, outcome.err)
                ELSE IF greq.kind = "Update"
                THEN resourceUserGroupUpdateAfterWait(outcome.err)
                ELSE resourceUserGroupDeleteAfterWait(outcome.err)
     IN /\ gdiags' = res.diag
        /\ gpc' = res.next
  /\ UNCHANGED <<greq, ginput, gdata, gcalls>>
  /\ UNCHANGED pollVars
  /\ UNCHANGED <<keyVars, codecVars>>

\* err := createTags(ctx, conn, aws.ToString(output.ARN), tags)
GroupCreateTags ==
  /\ gpc = "tag"
  /\ \E err \in CreateTagsErrors :
       LET res == resourceUserGroupCreateAfterCreateTags(greq, err)
       IN /\ gcalls' = Append(gcalls, [api |-> "createTags", input |-> getTagsIn(greq),
                                       err |-> err, out |-> <<>>])
          /\ gdiags' = res.diag
          /\ gpc' = res.next
  /\ UNCHANGED <<greq, ginput, gdata>>
  /\ UNCHANGED pollVars
  /\ UNCHANGED <<keyVars, codecVars>>

\* resourceUserGroupRead, as the last step of Create and Update or on its own.
GroupRead ==
  /\ gpc = "read"
  /\ \E resp \in DescribeUserGroupsResponses(group) :
       LET res == resourceUserGroupRead(gdata, resp)
       IN /\ gcalls' = Append(gcalls, [api |-> "DescribeUserGroups", input |-> gdata.id,
                                       err |-> resp.err, out |-> resp.groups])
          /\ gdata' = res.d
          /\ gdiags' = res.diag
  /\ gpc' = "done"
  /\ UNCHANGED <<greq, ginput>>
  /\ UNCHANGED pollVars
  /\ UNCHANGED <<keyVars, codecVars>>

\* resourceUserGroupRead is called on its own for a resource in the state: at
\* the start, or as the refresh that follows a handler.
GroupReadCall ==
  /\ gpc \in {"idle", "done"} /\ gdata.id # ""
  /\ greq.kind \in {None, "Create", "Update"}
  /\ greq' = [NoGroupReq EXCEPT !.kind = "Read"]
  /\ gdata' = [gdata EXCEPT !.isNew = FALSE]
  /\ gpc' = "read"
  /\ gdiags' = NoDiag /\ gcalls' = <<>>
  /\ UNCHANGED ginput
  /\ UNCHANGED pollVars
  /\ UNCHANGED <<keyVars, codecVars>>

\* resourceUserGroupUpdate is called with the old and the new configuration.
GroupUpdateCall ==
  /\ gpc = "idle" /\ gdata.id # ""
  /\ \E o \in SUBSET Users, n \in SUBSET Users, e \in BOOLEAN, tc \in BOOLEAN :
       LET req == [NoGroupReq EXCEPT !.kind = "Update", !.old_user_ids = o,
                                     !.user_ids = n, !.engineChanged = e,
                                     !.tagsChanged = tc]
       IN /\ greq' = req
          /\ gpc' = IF HasChangesExceptTags(req) THEN "modify" ELSE "read"
  /\ gdiags' = NoDiag /\ gcalls' = <<>>
  /\ UNCHANGED <<ginput, gdata>>
  /\ UNCHANGED pollVars
  /\ UNCHANGED <<keyVars, codecVars>>

\* _, err := conn.ModifyUserGroup(ctx, input)
GroupModifyUserGroup ==
  /\ gpc = "modify"
  /\ \E r \in ModifyUserGroupResponses(group), t \in Timeouts :
       LET res == resourceUserGroupUpdateAfterModifyUserGroup(r.err)
       IN /\ group' = r.group
          /\ gcalls' = Append(gcalls, [api |-> "ModifyUserGroup",
                                       input |-> ModifyUserGroupInput(greq),
                                       err |-> r.err, out |-> <<>>])
          /\ gdiags' = res.diag
          /\ gpc' = res.next
          /\ IF res.next = "wait" THEN StartWait(waitUserGroupUpdatedConf(t))
             ELSE NoWait
  /\ UNCHANGED <<greq, ginput, gdata>>
  /\ UNCHANGED <<keyVars, codecVars>>

\* resourceUserGroupDelete is called for a resource in the state.
GroupDeleteCall ==
  /\ gpc = "idle" /\ gdata.id # ""
  /\ greq' = [NoGroupReq EXCEPT !.kind = "Delete"]
  /\ gpc' = "delete"
  /\ gdiags' = NoDiag /\ gcalls' = <<>>
  /\ UNCHANGED <<ginput, gdata>>
  /\ UNCHANGED pollVars
  /\ UNCHANGED <<keyVars, codecVars>>

\* _, err := conn.DeleteUserGroup(ctx, input)
GroupDeleteUserGroup ==
  /\ gpc = "delete"
  /\ \E r \in DeleteUserGroupResponses(group), t \in Timeouts :
       LET res == resourceUserGroupDeleteAfterDeleteUserGroup(r.err)
       IN /\ group' = r.group
          /\ gcalls' = Append(gcalls, [api |-> "DeleteUserGroup", input |-> gdata.id,
                                       err |-> r.err, out |-> <<>>])
          /\ gdiags' = res.diag
          /\ gpc' = res.next
          /\ IF res.next = "wait" THEN StartWait(waitUserGroupDeletedConf(t))
             ELSE NoWait
  /\ UNCHANGED <<greq, ginput, gdata>>
  /\ UNCHANGED <<keyVars, codecVars>>

\* Another actor creates, changes or deletes the group while a handler runs or
\* between two handlers.
GroupChangeOutOfBand ==
  /\ gpc # "idle"
  /\ \E g \in (Statuses \cup {Absent}) \ {group} : group' = g
  /\ UNCHANGED <<conf, pstate, pphase, now, refreshes, lastRefreshAt, lastObs,
                 outcome, allPending, minGap, pollCtxDone>>
  /\ UNCHANGED grpVars
  /\ UNCHANGED <<keyVars, codecVars>>

GroupNext ==
  \/ GroupCreateCall
  \/ GroupCreateUserGroup
  \/ GroupWaitReturn
  \/ GroupCreateTags
  \/ GroupRead
  \/ GroupReadCall
  \/ GroupUpdateCall
  \/ GroupModifyUserGroup
  \/ GroupDeleteCall
  \/ GroupDeleteUserGroup
  \/ GroupChangeOutOfBand
  \/ PollDelay
  \/ PollRefreshCall
  \/ PollRefreshReturn
  \/ PollSleep
  \/ PollCancel
  \/ PollCtxDone

\* The part counts the resources use, and the part lists handed to the codec:
\* as many parts as one of the counts, or one part less.
PartCounts == {keyResourceIDPartCount, userInGroupIDPartCount}
PartLists ==
  UNION {[1..n -> Strings] : n \in PartCounts \cup {c - 1 : c \in PartCounts}}

\* The part lists an encoded list is compared with: those of at most MaxIdChars
\* characters in all.
MaxIdChars == 3
RECURSIVE TotalChars(_)
TotalChars(parts) ==
  IF parts = <<>> THEN 0 ELSE Len(Head(parts)) + TotalChars(Tail(parts))
ShortLists == {q : q \in {r \in PartLists : TotalChars(r) <= MaxIdChars}}
ShortListsOfLen == [n \in {Len(q) : q \in PartLists} |-> {q \in ShortLists : Len(q) = n}]
\* FlattenResourceId of every such list, called with the list's own count.
FlattenedShortLists ==
  [a \in BOOLEAN |-> [q \in ShortLists |-> FlattenResourceId(q, Len(q), a)]]

CodecInit ==
  /\ cparts \in PartLists
  /\ carity \in PartCounts
  /\ callow \in BOOLEAN
  /\ cid = <<>>
  /\ cenc = [id |-> <<>>, err |-> None] /\ cdec = [parts |-> <<>>, err |-> None]
  /\ cdarity = 0 /\ cphase = "input" /\ imported = NoImport
  /\ kread = NoKeyRead /\ uig = NoUserInGroup /\ members = {}

\* id, err := flex.FlattenResourceId(parts, count, allowEmpty)
CodecFlatten ==
  /\ cphase = "input"
  /\ cenc' = FlattenResourceId(cparts, carity, callow)
  /\ cid' = cenc'.id
  /\ cphase' = "encoded"
  /\ UNCHANGED <<cparts, carity, callow, cdec, cdarity, imported, kread, uig, members>>
  /\ UNCHANGED <<keyVars, pollVars, grpVars>>

\* parts, err := flex.ExpandResourceId(id, count, allowEmpty) on a stored id
CodecExpand ==
  /\ cphase = "encoded" /\ cenc.err = None
  /\ \E m \in PartCounts :
       /\ cdarity' = m
       /\ cdec' = ExpandResourceId(cid, m, callow)
  /\ cphase' = "decoded"
  /\ UNCHANGED <<cparts, carity, callow, cid, cenc, imported, kread, uig, members>>
  /\ UNCHANGED <<keyVars, pollVars, grpVars>>

\* keyResource.ImportState is called with an identifier that was stored for a
\* resource, or with no identifier and the resource identity of the part list.
CodecImportState ==
  /\ cphase = "encoded" /\ cenc.err = None
  /\ \E byId \in BOOLEAN, identity \in {NoIdentity} \cup IdentitiesOf(cparts) :
       LET req == IF byId THEN cid ELSE <<>>
           res == ImportState(req, identity)
       IN imported' = [req |-> req, diag |-> res.diag, attrs |-> res.attrs]
  /\ cphase' = "imported"
  /\ UNCHANGED <<cparts, carity, callow, cid, cenc, cdec, cdarity, kread, uig, members>>
  /\ UNCHANGED <<keyVars, pollVars, grpVars>>

\* ---- keyResource.Read ----
\* What GetKey can return for a key: the stored item, a not-found fault, a
\* service failure, or an output without Key.
GetKeyResponses(key) ==
  {[err |-> None, hasKey |-> TRUE, key |-> key, value |-> v, size |-> 1] : v \in Values}
  \cup {[err |-> e, hasKey |-> FALSE, key |-> <<>>, value |-> None, size |-> 0] :
          e \in {"ResourceNotFoundException", "InternalServerException", None}}

findKeyByTwoPartKey(resp) ==
  IF resp.err = "ResourceNotFoundException" THEN "NotFoundError"
  ELSE IF resp.err # None THEN resp.err
  ELSE IF ~resp.hasKey THEN "EmptyResultError"
  ELSE None

\* keyResource.Read: [diag, state]; a key that is not found is removed from the
\* state with a warning, else the output is copied into the state.
keyResourceRead(st, resp) ==
  LET err == findKeyByTwoPartKey(resp)
  IN IF NotFound(err) THEN [diag |-> NoDiag, state |-> NoState]
     ELSE IF err # None
     THEN [diag |-> [summary |-> "reading Key", detail |-> err], state |-> st]
     ELSE [diag |-> NoDiag,
           state |-> [st EXCEPT !.key = resp.key, !.value = resp.value,
                                !.size = resp.size]]

\* The state an import leaves: the attributes ImportState set, nothing else.
ImportedState(attrs) ==
  [present |-> TRUE, id |-> attrs.id, arn |-> attrs.arn, key |-> attrs.key,
   value |-> None, size |-> 0]

\* Read runs on the state an import of the key resource left; when the imported
\* identifier is the one Create stores for the part list, Read also runs, against
\* the same remote key, on the state Create stored.
KeyReadAfterImport ==
  /\ cphase = "imported" /\ imported.diag = None /\ imported.attrs # NoAttrs
  /\ \E resp \in GetKeyResponses(imported.attrs.key), v \in Values :
       LET data == IF Len(cparts) = keyResourceIDPartCount
                   THEN [arn |-> cparts[1], key |-> cparts[2], value |-> v]
                   ELSE NoData
           made == CreateAfterPut(data, NoState, [err |-> None, size |-> 1])
           same == /\ data # NoData /\ made.diag = NoDiag
                   /\ imported.req = made.state.id
       IN kread' = [imported |-> keyResourceRead(ImportedState(imported.attrs), resp),
                    created |-> IF same THEN keyResourceRead(made.state, resp)
                                ELSE NoRead,
                    compared |-> same]
  /\ cphase' = "keyread"
  /\ UNCHANGED <<cparts, carity, callow, cid, cenc, cdec, cdarity, imported, uig, members>>
  /\ UNCHANGED <<keyVars, pollVars, grpVars>>

\* ---- the Cognito user-in-group resource ----
\* AdminAddUserToGroup: the membership is added, or the call fails.
AdminAddUserToGroup(mem, input, fault) ==
  IF fault # None THEN [members |-> mem, err |-> fault]
  ELSE [members |-> mem \cup {<<input.UserPoolId, input.GroupName, input.Username>>},
        err |-> None]

\* AdminListGroupsForUser: the groups of the user, a user-not-found fault when
\* the user is in no group, or the failure the call met.
AdminListGroupsForUser(mem, userPoolID, username, fault) ==
  LET groups == {t[2] : t \in {u \in mem : u[1] = userPoolID /\ u[3] = username}}
  IN IF fault = "UserNotFoundException" /\ groups # {}
     THEN [groups |-> groups, err |-> None]
     ELSE IF fault # None THEN [groups |-> {}, err |-> fault]
     ELSE [groups |-> groups, err |-> None]

ListFaults == {None, "InternalErrorException", "UserNotFoundException"}

findGroupUserByThreePartKey(page, groupName) ==
  IF page.err \in {"UserNotFoundException", "ResourceNotFoundException"}
  THEN "NotFoundError"
  ELSE IF page.err # None THEN page.err
  ELSE IF groupName \in page.groups THEN None
  ELSE "NotFoundError"

\* Read decoding with allowEmpty true.
resourceUserInGroupReadAllowingEmpty(d, isNewResource, mem, fault) ==
  LET r == ExpandResourceId(d.id, userInGroupIDPartCount, TRUE)
  IN IF r.err # None THEN [d EXCEPT !.diag = r.err]
     ELSE LET userPoolId == r.parts[1]
              groupName == r.parts[2]
              username == r.parts[3]
              err == findGroupUserByThreePartKey(
                       AdminListGroupsForUser(mem, userPoolId, username, fault),
                       groupName)
          IN IF ~isNewResource /\ NotFound(err) THEN [d EXCEPT !.id = <<>>]
             ELSE IF err # None THEN [d EXCEPT !.diag = err]
             ELSE [d EXCEPT !.attrs = UserInGroupAttrs(userPoolId, groupName, username)]
\* Read storing the user pool id as group_name and the group name as user_pool_id.
resourceUserInGroupReadSwappingAttrs(d, isNewResource, mem, fault) ==
  LET r == ExpandResourceId(d.id, userInGroupIDPartCount, FALSE)
  IN IF r.err # None THEN [d EXCEPT !.diag = r.err]
     ELSE LET userPoolId == r.parts[1]
              groupName == r.parts[2]
              username == r.parts[3]
              err == findGroupUserByThreePartKey(
                       AdminListGroupsForUser(mem, userPoolId, username, fault),
                       groupName)
          IN IF ~isNewResource /\ NotFound(err) THEN [d EXCEPT !.id = <<>>]
             ELSE IF err # None THEN [d EXCEPT !.diag = err]
             ELSE [d EXCEPT !.attrs = UserInGroupAttrs(groupName, userPoolId, username)]
resourceUserInGroupRead(d, isNewResource, mem, fault) ==
  LET r == ExpandResourceId(d.id, userInGroupIDPartCount, FALSE)
  IN IF r.err # None THEN [d EXCEPT !.diag = r.err]
     ELSE LET userPoolId == r.parts[1]
              groupName == r.parts[2]
              username == r.parts[3]
              err == findGroupUserByThreePartKey(
                       AdminListGroupsForUser(mem, userPoolId, username, fault),
                       groupName)
          IN IF ~isNewResource /\ NotFound(err) THEN [d EXCEPT !.id = <<>>]
             ELSE IF err # None THEN [d EXCEPT !.diag = err]
             ELSE [d EXCEPT !.attrs = UserInGroupAttrs(userPoolId, groupName, username)]

\* resourceUserInGroupCreate, from the AdminAddUserToGroup result to d.SetId:
\* an error of the call or of the codec returns, else the id is set and Read
\* is called.
resourceUserInGroupCreate(config, added) ==
  LET idParts == <<config.user_pool_id, config.group_name, config.username>>
      enc == FlattenResourceId(idParts, userInGroupIDPartCount, FALSE)
      d == [id |-> <<>>, attrs |-> config, diag |-> None]
  IN IF added.err # None THEN [d EXCEPT !.diag = added.err]
     ELSE IF enc.err # None THEN [d EXCEPT !.diag = enc.err]
     ELSE [d EXCEPT !.id = enc.id]

\* AdminRemoveUserFromGroup: the membership is removed, or the call fails.
AdminRemoveUserFromGroup(mem, input, fault) ==
  IF fault # None THEN [members |-> mem, err |-> fault]
  ELSE [members |-> mem \ {<<input.UserPoolId, input.GroupName, input.Username>>},
        err |-> None]

\* resourceUserInGroupDelete, from the AdminRemoveUserFromGroup result on: an
\* error is reported; after a Delete without error the SDK drops the id.
resourceUserInGroupDelete(d, removed) ==
  IF removed.err # None THEN [d EXCEPT !.diag = removed.err]
  ELSE [d EXCEPT !.id = <<>>, !.diag = None]

\* Create runs with the three configured attributes (the schema requires a
\* username of at least one character): AdminAddUserToGroup is called and the
\* identifier stored. With an error Create has returned, else it goes on to Read.
UserInGroupCreate ==
  /\ cphase = "input"
  /\ Len(cparts) = userInGroupIDPartCount /\ carity = userInGroupIDPartCount /\ ~callow
  /\ cparts[3] # <<>>
  /\ \E addFault \in {None, "InternalErrorException"} :
       LET config == UserInGroupAttrs(cparts[1], cparts[2], cparts[3])
           added == AdminAddUserToGroup(members,
                      [UserPoolId |-> cparts[1], GroupName |-> cparts[2],
                       Username |-> cparts[3]], addFault)
           d == resourceUserInGroupCreate(config, added)
       IN /\ members' = added.members
          /\ uig' = [uig EXCEPT !.created = d]
          /\ cid' = d.id
          /\ cphase' = IF d.diag = None THEN "creating" ELSE "created"
  /\ UNCHANGED <<cparts, carity, callow, cenc, cdec, cdarity, imported, kread>>
  /\ UNCHANGED <<keyVars, pollVars, grpVars>>

\* return append(diags, resourceUserInGroupRead(ctx, d, meta)...): the Read
\* that ends Create, on the new resource.
UserInGroupCreateRead ==
  /\ cphase = "creating"
  /\ \E fault \in ListFaults :
       uig' = [uig EXCEPT !.created = resourceUserInGroupRead(uig.created, TRUE,
                                                              members, fault)]
  /\ cphase' = "created"
  /\ UNCHANGED <<cparts, carity, callow, cid, cenc, cdec, cdarity, imported, kread,
                 members>>
  /\ UNCHANGED <<keyVars, pollVars, grpVars>>

\* resourceUserInGroupDelete runs on the resource Create stored, with the
\* attributes of its state.
UserInGroupDelete ==
  /\ cphase = "created" /\ uig.created.id # <<>>
  /\ \E fault \in {None, "InternalErrorException"} :
       LET a == uig.created.attrs
           removed == AdminRemoveUserFromGroup(members,
                        [GroupName |-> a.group_name, Username |-> a.username,
                         UserPoolId |-> a.user_pool_id], fault)
       IN /\ members' = removed.members
          /\ uig' = [uig EXCEPT !.deleted =
                       resourceUserInGroupDelete([uig.created EXCEPT !.diag = None],
                                                 removed)]
  /\ cphase' = "deleted"
  /\ UNCHANGED <<cparts, carity, callow, cid, cenc, cdec, cdarity, imported, kread>>
  /\ UNCHANGED <<keyVars, pollVars, grpVars>>

\* Another actor removes the user from the group, while Create runs or after.
UserRemovedFromGroup ==
  /\ cphase \in {"creating", "created"} /\ members # {}
  /\ members' = {}
  /\ UNCHANGED <<cparts, carity, callow, cid, cenc, cdec, cdarity, cphase, imported,
                 kread, uig>>
  /\ UNCHANGED <<keyVars, pollVars, grpVars>>

\* schema.ImportStatePassthroughContext followed by Read: the identifier the
\* user hands in (the one Create stored, or one the codec made for some count
\* and allowEmpty) becomes d.Id(), then resourceUserInGroupRead runs.
UserInGroupImport ==
  /\ \/ cphase = "created" /\ uig.created.diag = None
     \/ cphase = "encoded" /\ cenc.err = None
  /\ \E fault \in ListFaults :
       uig' = [uig EXCEPT !.imported =
                 resourceUserInGroupRead([NoResourceData EXCEPT !.id = cid], FALSE,
                                         members, fault)]
  /\ cphase' = "reimported"
  /\ UNCHANGED <<cparts, carity, callow, cid, cenc, cdec, cdarity, imported, kread, members>>
  /\ UNCHANGED <<keyVars, pollVars, grpVars>>

CodecNext ==
  \/ CodecFlatten
  \/ CodecExpand
  \/ CodecImportState
  \/ KeyReadAfterImport
  \/ UserInGroupCreate
  \/ UserInGroupCreateRead
  \/ UserInGroupDelete
  \/ UserRemovedFromGroup
  \/ UserInGroupImport

\* The codec alone: both resources idle.
InitCodec == CodecInit /\ KeyIdle /\ PollIdle /\ GroupIdle
SpecCodec == InitCodec /\ [][CodecNext]_vars

(***************************************************************************)
(* Specifications                                                          *)
(***************************************************************************)
InitKey == KeyInit /\ CodecIdle /\ PollIdle /\ GroupIdle
SpecKey == InitKey /\ [][KeyNext]_vars
SpecKeyCtx == InitKey /\ [][KeyCtxNext]_vars
SpecKeyRace == InitKey /\ [][KeyRaceNext]_vars
SpecKeyGone == InitKey /\ [][KeyGoneNext]_vars
\* A handler that holds its lock runs on: its remote calls return and its code
\* goes on to the deferred Unlock. A caller blocked in Lock gets the lock if it
\* is free again and again.
SpecKeyLive ==
  /\ InitKey /\ [][KeyLiveNext]_vars
  /\ \A p \in Callers : WF_vars(KeyHolderStep(p)) /\ SF_vars(KeyLock(p))
InitPoll == PollInit /\ KeyIdle /\ CodecIdle /\ GroupIdle
SpecPoll == InitPoll /\ [][PollNext]_vars
\* The wait is synchronous code: a session that can take a step takes it.
SpecPollLive == InitPoll /\ [][PollNext]_vars /\ WF_vars(PollStep)
InitPollSeq == PollSeqInit /\ KeyIdle /\ CodecIdle /\ GroupIdle
SpecPollSeq == InitPollSeq /\ [][PollSeqNext]_vars /\ WF_vars(PollSeqNext)
InitGroup == GroupInit /\ KeyIdle /\ CodecIdle
SpecGroup == InitGroup /\ [][GroupNext]_vars

(***************************************************************************)
(* Guarded mutation: properties                                            *)
(***************************************************************************)
\* A caller is inside its critical section from the moment it holds the lock
\* until its handler returns: reading the token, building and writing.
InCriticalSection(p) == pc[p] \in {"read", "write", "deferred"}

\* C1: of two in-process guarded mutations (Create, value-changing Update,
\* Delete) against the same key value store ARN, at most one is inside its
\* read-token / build / write critical section, in every reachable state.
C1_MutualExclusion ==
  \A p, q \in Callers :
    (p # q /\ InCriticalSection(p) /\ InCriticalSection(q))
      => op[p].data.arn # op[q].data.arn

\* One caller has read the token and not yet written, while an Update or Delete
\* of another caller on the same store waits for the lock.
C1_Witness ==
  \E p, q \in Callers :
    /\ p # q /\ pc[p] = "write" /\ pc[q] = "lock"
    /\ op[p].data.arn = op[q].data.arn
    /\ op[q].kind \in {"Update", "Delete"}

\* C2: when a writer outside the process changed the store between a caller's
\* token read and its write, the write (if it reaches the store) is rejected
\* for its stale token, the handler reports the error, the local state is kept,
\* and the store stays as the outside writer left it.
NotDelivered == {"InternalServerException", "ExpandError", RequestCanceled}
C2_StaleWriteRejected ==
  [][\A p \in Callers :
       (pc[p] = "write" /\ pc'[p] = "deferred" /\ interfered[p])
         => /\ store' = store
            /\ tfstate'[p] = tfstate[p]
            /\ diags'[p].detail \in {"PreconditionFailed"} \cup NotDelivered]_vars

\* A Create whose token went stale was answered with the precondition failure,
\* and the store holds the outside writer's value under the caller's own key.
C2_Witness ==
  \E p \in Callers :
    /\ pc[p] = "deferred" /\ interfered[p] /\ op[p].kind = "Create"
    /\ diags[p].detail = "PreconditionFailed"
    /\ op[p].data.key = ExternalKey
    /\ store[op[p].data.arn].items[ExternalKey] = ExtValue

\* C3: the lock of the store's ARN is acquired before the token is read and is
\* held by the same caller at every moment from the token read to the end of
\* the write.
C3_LockHeldFromReadToWrite ==
  \A p \in Callers :
    /\ pc[p] = "read" => mutex[op[p].data.arn] = p
    /\ pc[p] \in {"write", "deferred"}
         => (lockedAtRead[p] /\ mutex[op[p].data.arn] = p)

\* An Update whose write failed still holds the lock it took before the read.
C3_Witness ==
  \E p \in Callers :
    /\ pc[p] = "deferred" /\ op[p].kind = "Update"
    /\ diags[p].summary = "updating Key"
    /\ lockedAtRead[p] /\ mutex[op[p].data.arn] = p

\* C4: a handler that has returned, on whatever path, holds no lock.
C4_LockReleasedOnReturn ==
  \A p \in Callers :
    pc[p] \in {"idle", "lock"} => \A l \in LockIds : mutex[l] # p

\* A caller returned with an error and another caller now holds the lock of
\* the same store.
C4_Witness ==
  \E p, q \in Callers :
    /\ p # q /\ pc[p] = "idle" /\ lastFailed[p] /\ tfstate[p].present
    /\ mutex[tfstate[p].arn] = q

\* C24: a caller waiting for the lock of a key value store ARN is blocked only
\* by a caller inside a critical section on the same ARN: when every other
\* caller inside a critical section works on a different ARN, the lock it asks
\* for is free and it can enter, so critical sections on different ARNs overlap.
C24_DifferentIdentitiesDoNotContend ==
  \A p \in Callers :
    (/\ pc[p] = "lock"
     /\ \A q \in Callers \ {p} :
          InCriticalSection(q) => op[q].data.arn # op[p].data.arn)
      => (MutexKVFree(MutexKey(op[p].data)) /\ ENABLED KeyLock(p))

\* Two callers are between their token read and their write at the same time,
\* on different key value stores.
C24_Witness ==
  \E p, q \in Callers :
    /\ p # q /\ pc[p] = "write" /\ pc[q] = "write"
    /\ op[p].data.arn # op[q].data.arn
    /\ mutex[op[p].data.arn] = p /\ mutex[op[q].data.arn] = q

\* C23: when a handler of this process and a writer in another process have
\* read the same version token of a key value store and both have written
\* presenting it, exactly one of the two writes was accepted, the other was
\* rejected with a precondition failure, and the store holds the accepted
\* write: its token moved on by one and the written key has the winner's value.
C23_OneOfTwoWritersWins ==
  \A p \in Callers :
    (/\ pc[p] = "deferred" /\ sent[p] # <<>> /\ diags[p].detail \notin NotDelivered
     /\ extWriter.phase = "done" /\ extWriter.arn = op[p].data.arn
     /\ extWriter.etag = sent[p][1])
      => LET st == store[op[p].data.arn]
             mine == diags[p] = NoDiag
             theirs == extWriter.err = None
         IN /\ mine # theirs
            /\ ~mine => diags[p].detail = "PreconditionFailed"
            /\ ~theirs => extWriter.err = "PreconditionFailed"
            /\ st.etag = sent[p][1] + 1
            /\ mine => st.items[op[p].data.key] =
                         (IF op[p].kind = "Delete" THEN None ELSE op[p].data.value)
            /\ theirs => st.items[ExternalKey] = ExtValue

\* An Update of this process and the writer of the other process read the same
\* token and wrote the same key; the Update arrived first and was accepted, the
\* other writer was rejected.
C23_Witness ==
  \E p \in Callers :
    /\ pc[p] = "deferred" /\ op[p].kind = "Update" /\ sent[p] # <<>>
    /\ extWriter.phase = "done" /\ extWriter.arn = op[p].data.arn
    /\ extWriter.etag = sent[p][1]
    /\ op[p].data.key = ExternalKey
    /\ diags[p] = NoDiag /\ extWriter.err = "PreconditionFailed"
    /\ store[op[p].data.arn].items[ExternalKey] = op[p].data.value

\* The running Delete of p issued DeleteKey and the store answered that the key
\* does not exist.
DeleteMetNotFound(p) ==
  /\ op[p].kind = "Delete" /\ sent[p] # <<>>
  /\ faults[p] = <<"ResourceNotFoundException">>

\* C25 as the specification words it: whenever a remote call of a handler
\* answered an error, the handler ends with an error.
C25_EveryRemoteErrorReported ==
  \A p \in Callers :
    (pc[p] = "deferred" /\ faults[p] # <<>>) => diags[p] # NoDiag

\* C25, amended: every error a remote call of a guarded mutation or a delete
\* answered ends the handler with an error that names it, and the local state
\* stays as it was, except the not-found answer to DeleteKey: the Delete then
\* ends without error and the resource leaves the state.
C25_RemoteErrorsReportedExceptDeleteNotFound ==
  \A p \in Callers :
    /\ (pc[p] = "deferred" /\ faults[p] # <<>> /\ ~DeleteMetNotFound(p))
         => (/\ diags[p] # NoDiag
             /\ diags[p].detail =
                  (IF sent[p] = <<>> /\ faults[p][1] = "ResourceNotFoundException"
                   THEN "NotFoundError" ELSE faults[p][1])
             /\ tfstate[p] = op[p].old)
    /\ (pc[p] = "deferred" /\ DeleteMetNotFound(p))
         => (diags[p] = NoDiag /\ tfstate[p] = NoState)

\* A Delete found its key already deleted by another process and ended without
\* error.
C25_Witness ==
  \E p \in Callers :
    /\ pc[p] = "deferred" /\ DeleteMetNotFound(p)
    /\ op[p].old.present /\ store[op[p].data.arn].exists
    /\ store[op[p].data.arn].items[op[p].data.key] = None
    /\ diags[p] = NoDiag /\ tfstate[p] = NoState

\* C12: a guarded mutation reads the token at most once and issues at most
\* one remote write; once it has issued a write it is at its return, and a write
\* refused for its token (or failed otherwise) is followed by the return, with
\* the error in the diagnostics, not by another token read or another write.
C12_AtMostOneWrite ==
  \A p \in Callers :
    /\ Len(sent[p]) <= 1 /\ reads[p] <= 1
    /\ sent[p] # <<>> => pc[p] = "deferred"
    /\ diags[p].detail \in {"PreconditionFailed", "InternalServerException",
                             "ResourceNotFoundException"}
         => (pc[p] = "deferred" /\ reads[p] = 1 /\ Len(sent[p]) <= 1)

\* An Update whose write was refused for its token is at its return after one
\* token read and one write.
C12_Witness ==
  \E p \in Callers :
    /\ pc[p] = "deferred" /\ op[p].kind = "Update"
    /\ diags[p].detail = "PreconditionFailed"
    /\ reads[p] = 1 /\ Len(sent[p]) = 1

\* C13: as long as no writer outside the process has written, no write of a
\* caller is refused for a precondition mismatch, whatever the interleaving of
\* the callers (all of them lock the store's ARN).
C13_NoMismatchWithoutExternalWriter ==
  extWrites = 0 => \A p \in Callers : diags[p].detail # "PreconditionFailed"

\* With no outside write, a Create was accepted with the token that another
\* caller's write on the same store had produced.
C13_Witness ==
  \E p, q \in Callers :
    /\ p # q /\ extWrites = 0
    /\ pc[p] = "deferred" /\ op[p].kind = "Create" /\ diags[p] = NoDiag
    /\ sent[p] = <<2>> /\ store[op[p].data.arn].etag = 3
    /\ tfstate[q].present /\ tfstate[q].arn = op[p].data.arn
    /\ tfstate[q].value # InitialValue

\* C14: every write a guarded mutation issues presents the token that the same
\* handler run read before, under the lock it still holds; a run presents a
\* token in at most one write, and never more writes than it made token reads.
C14_WritePresentsReadToken ==
  \A p \in Callers :
    /\ Len(sent[p]) <= reads[p]
    /\ sent[p] # <<>>
         => /\ Len(sent[p]) = 1 /\ reads[p] = 1
            /\ sent[p][1] = etagRead[p] /\ etagRead[p] # NoETag
            /\ lockedAtRead[p] /\ mutex[op[p].data.arn] = p

\* A Delete was accepted with the token it read, after an earlier write had
\* changed the store's token.
C14_Witness ==
  \E p \in Callers :
    /\ pc[p] = "deferred" /\ op[p].kind = "Delete" /\ diags[p] = NoDiag
    /\ sent[p] = <<etagRead[p]>> /\ etagRead[p] = 2
    /\ ~tfstate[p].present

\* C18: a caller whose context was done while it waited for a lock that another
\* caller held gives up: it does not acquire the lock, and neither reads the
\* token nor writes.
C18_CanceledWaiterGivesUp ==
  \A p \in Callers :
    canceledWaiting[p]
      => (mutex[MutexKey(op[p].data)] # p /\ reads[p] = 0 /\ sent[p] = <<>>)

(***************************************************************************)
(* Identifier codec: properties                                            *)
(***************************************************************************)
\* C5: for every part list FlattenResourceId accepts for a count n and an
\* allowEmpty a, ExpandResourceId of the identifier with the same n and a
\* returns exactly the part list, also when parts hold the delimiter or the
\* escape character.
C5_RoundTrip ==
  (cphase = "decoded" /\ cdarity = carity)
    => (cdec.err = None /\ cdec.parts = cparts)

\* A round trip of a list with a part holding the delimiter and a part holding
\* the escape character.
C5_Witness ==
  /\ cphase = "decoded" /\ cdarity = carity /\ cdec.parts = cparts
  /\ \E i, j \in 1..Len(cparts) :
       /\ \E k \in 1..Len(cparts[i]) : cparts[i][k] = Delim
       /\ \E k \in 1..Len(cparts[j]) : cparts[j][k] = Esc

\* C19: ExpandResourceId of an identifier that FlattenResourceId produced for a
\* count n, called with another count m, fails with ArityError and returns no
\* parts (never a truncated or padded list); keyResource.ImportState of an
\* identifier made for another count than its own reports that error and sets
\* no attribute.
C19_ArityMismatchRejected ==
  /\ (cphase = "decoded" /\ cdarity # carity)
       => (cdec.err = "ArityError" /\ cdec.parts = <<>>)
  /\ (cphase = "imported" /\ imported.req # <<>> /\ carity # keyResourceIDPartCount)
       => (imported.diag = "ArityError" /\ imported.attrs = NoAttrs)

\* An identifier of three parts whose first part is a well-formed ARN was
\* presented to the import of the key resource, and refused.
C19_Witness ==
  /\ cphase = "imported" /\ imported.req # <<>>
  /\ carity = userInGroupIDPartCount /\ cenc.err = None
  /\ ArnParse(cparts[1]) = None /\ cparts[2] # <<>> /\ cparts[3] # <<>>
  /\ imported.diag = "ArityError"

\* C20: FlattenResourceId(parts, expectedCount, allowEmpty) fails with
\* ArityError whenever the number of parts differs from expectedCount, and
\* returns no identifier then.
C20_EncodeArityError ==
  (cphase # "input" /\ Len(cparts) # carity)
    => (cenc.err = "ArityError" /\ cenc.id = <<>> /\ cid = <<>>)

\* Two non-empty parts were handed in where three are expected.
C20_Witness ==
  /\ cphase = "encoded" /\ Len(cparts) = keyResourceIDPartCount
  /\ carity = userInGroupIDPartCount /\ ~HasEmptyPart(cparts)
  /\ cenc.err = "ArityError" /\ cid = <<>>

\* C22: FlattenResourceId is injective on the lists it accepts: no other part
\* list of the same count (among those of at most MaxIdChars characters) that
\* it accepts with the same allowEmpty gets the identifier of the encoded
\* list, also when parts hold the delimiter, as <<"a,", "a">> and <<"a", ",a">>.
C22_EncodeInjective ==
  (cphase = "encoded" /\ cenc.err = None /\ TotalChars(cparts) <= MaxIdChars)
    => \A q \in ShortListsOfLen[carity] \ {cparts} :
         LET other == FlattenedShortLists[callow][q]
         IN other.err = None => other.id # cid

\* A list was encoded whose plain join by the delimiter is also the plain join
\* of another list of the same count; the other list got another identifier.
C22_Witness ==
  /\ cphase = "encoded" /\ cenc.err = None /\ ~callow
  /\ TotalChars(cparts) <= MaxIdChars
  /\ \E q \in ShortListsOfLen[carity] \ {cparts} :
       /\ ~HasEmptyPart(q)
       /\ JoinPartsUnescaped(q) = JoinPartsUnescaped(cparts)
       /\ FlattenedShortLists[callow][q].err = None
       /\ FlattenedShortLists[callow][q].id # cid

\* C21: with allowEmpty false FlattenResourceId refuses with InvalidPartError a
\* part list of the right count that holds an empty part, and
\* ExpandResourceId, as resourceUserInGroupRead calls it, refuses with
\* InvalidPartError an identifier whose parts include an empty one; with
\* allowEmpty true both accept empty parts.
C21_EmptyPartsRefusedUnlessAllowed ==
  /\ (cphase = "encoded" /\ Len(cparts) = carity /\ ~callow /\ HasEmptyPart(cparts))
       => (cenc.err = "InvalidPartError" /\ cid = <<>>)
  /\ (cphase = "encoded" /\ Len(cparts) = carity /\ callow) => cenc.err = None
  /\ (cphase = "decoded" /\ cdarity = carity /\ callow) => cdec.err = None
  /\ (/\ cphase = "reimported" /\ uig.created = NoResourceData
      /\ Len(cparts) = userInGroupIDPartCount /\ carity = userInGroupIDPartCount
      /\ HasEmptyPart(cparts))
       => (/\ uig.imported.diag = "InvalidPartError"
           /\ uig.imported.attrs = NoUserInGroupAttrs)

\* An identifier of three parts, the second one empty, was made with allowEmpty
\* true, handed to the import of the user-in-group resource, and refused by Read.
C21_Witness ==
  /\ cphase = "reimported" /\ callow /\ carity = userInGroupIDPartCount
  /\ Len(cparts) = userInGroupIDPartCount
  /\ cparts[1] # <<>> /\ cparts[2] = <<>> /\ cparts[3] # <<>>
  /\ uig.imported.id = cid /\ cid # <<>>
  /\ uig.imported.diag = "InvalidPartError"

\* C30: an import by the identifier that Create stored, followed by Read, leaves
\* the same identifier and attribute values as Create followed by Read: for the
\* user-in-group resource user_pool_id, group_name and username are the first,
\* second and third part of the identifier (the configured values), and for
\* the key resource Read of the imported state and Read of the created state
\* agree when they read the same remote key.
C30_ImportThenReadAsCreateThenRead ==
  /\ (/\ cphase = "reimported"
      /\ uig.created.id # <<>> /\ uig.created.diag = None
      /\ uig.imported.id # <<>> /\ uig.imported.diag = None)
       => (/\ uig.imported.id = uig.created.id
           /\ uig.imported.attrs = uig.created.attrs
           /\ uig.imported.attrs = UserInGroupAttrs(cparts[1], cparts[2], cparts[3]))
  /\ (/\ cphase = "keyread" /\ kread.compared
      /\ kread.imported.diag = NoDiag /\ kread.created.diag = NoDiag)
       => kread.imported.state = kread.created.state

\* A membership whose group name holds the delimiter and whose user pool id
\* differs from the group name was created, then imported by the stored
\* identifier and read.
C30_Witness ==
  /\ cphase = "reimported"
  /\ uig.created.id # <<>> /\ uig.created.diag = None
  /\ uig.imported.id = uig.created.id /\ uig.imported.diag = None
  /\ cparts[1] # cparts[2]
  /\ \E k \in 1..Len(cparts[2]) : cparts[2][k] = Delim
  /\ uig.imported.attrs = UserInGroupAttrs(cparts[1], cparts[2], cparts[3])

(***************************************************************************)
(* State poller: properties                                                *)
(***************************************************************************)
\* The remote service said that the group does not exist.
RemoteNotFound(raw) ==
  raw.err = "UserGroupNotFoundFault" \/ (raw.err = None /\ raw.groups = <<>>)

\* The last refresh returned a group with this status.
Observed(label) == lastObs.found /\ lastObs.label = label

\* C6: a poll that observes a target label moves the session to Succeeded with
\* the object of that poll; a poll that observes a pending label leaves the
\* session polling (it sleeps and refreshes again). For the user group: active
\* ends a create or update wait in Succeeded, creating and modifying keep a
\* create wait going, modifying keeps an update wait going.
C6_TargetSucceedsPendingContinues ==
  /\ (lastObs.found /\ lastObs.label \in conf.Target)
       => (pstate = "Succeeded" /\ outcome.obj = lastObs.obj /\ outcome.err = None)
  /\ (lastObs.found /\ lastObs.label \in conf.Pending)
       => /\ pstate \in {"Polling", "TimedOut", "Canceled"}
          /\ pstate = "Polling" => pphase \in {"sleep", "refresh", "fetching"}
  /\ (conf.kind \in {"Created", "Updated"} /\ Observed(userGroupStatusActive))
       => pstate = "Succeeded"
  /\ (conf.kind = "Created"
      /\ (Observed(userGroupStatusCreating) \/ Observed(userGroupStatusModifying)))
       => pstate \in {"Polling", "TimedOut", "Canceled"}
  /\ (conf.kind = "Updated" /\ Observed(userGroupStatusModifying))
       => pstate \in {"Polling", "TimedOut", "Canceled"}

\* A create wait saw modifying, slept, and refreshes again.
C6_Witness ==
  /\ conf.kind = "Created" /\ Observed(userGroupStatusModifying)
  /\ pstate = "Polling" /\ pphase = "fetching" /\ refreshes = 2

\* C7: a poll that observes a label in neither the pending nor the target set
\* ends the session in Failed with an UnexpectedStateError that carries the
\* label; the session never goes on polling after it. For the user group: an
\* update wait fails on creating and on deleting.
C7_UnexpectedStateFails ==
  /\ (lastObs.found /\ lastObs.label \notin (conf.Pending \cup conf.Target))
       => /\ pstate = "Failed"
          /\ outcome.err = "UnexpectedStateError"
          /\ outcome.label = lastObs.label
  /\ (conf.kind = "Updated"
      /\ (Observed(userGroupStatusCreating) \/ Observed(userGroupStatusDeleting)))
       => (pstate = "Failed" /\ outcome.err = "UnexpectedStateError")

\* An update wait saw modifying first and then creating.
C7_Witness ==
  /\ conf.kind = "Updated" /\ Observed(userGroupStatusCreating)
  /\ refreshes = 2 /\ pstate = "Failed" /\ outcome.label = userGroupStatusCreating

\* C8: a session whose polls all observed a pending state ends, when its
\* timeout elapses, in TimedOut (not Failed, not Succeeded), and the outcome
\* carries the last observed object and label. For the user group: a delete
\* wait that still sees deleting never fails or succeeds.
C8_PendingUntilTimeoutTimesOut ==
  /\ (allPending /\ pstate \notin {"Polling", "Canceled"})
       => /\ pstate = "TimedOut"
          /\ now = conf.Timeout
          /\ outcome.err = "TimeoutError"
          /\ outcome.obj = lastObs.obj
          /\ outcome.label = lastObs.label
  /\ pstate = "TimedOut" => allPending
  /\ (conf.kind = "Deleted" /\ Observed(userGroupStatusDeleting))
       => pstate \in {"Polling", "TimedOut", "Canceled"}

\* A delete wait timed out after seeing deleting on more than one poll.
C8_Witness ==
  /\ conf.kind = "Deleted" /\ pstate = "TimedOut" /\ refreshes >= 2
  /\ outcome.label = userGroupStatusDeleting /\ outcome.obj = userGroupStatusDeleting

\* C9: a wait with an empty target set (the delete wait) ends in Succeeded
\* exactly when a poll reports the group as not found; while every poll still
\* finds the group it does not succeed.
C9_EmptyTargetSucceedsOnNotFound ==
  /\ conf.Target = {} <=> conf.kind = "Deleted"
  /\ conf.kind = "Deleted"
       => (pstate = "Succeeded" <=> (refreshes > 0 /\ RemoteNotFound(lastObs.raw)))

\* A delete wait saw deleting, then the group was gone.
C9_Witness ==
  /\ conf.kind = "Deleted" /\ pstate = "Succeeded" /\ refreshes = 2
  /\ RemoteNotFound(lastObs.raw)

\* C10: with a non-empty target set a poll that reports not found ends the
\* session in Failed unless not-found is listed as pending; the create and the
\* update wait do not list it, so a not-found report ends them in Failed.
C10_NotFoundFailsCreateWait ==
  /\ (conf.Target # {} /\ refreshes > 0 /\ RemoteNotFound(lastObs.raw)
      /\ NotFoundLabel \notin conf.Pending)
       => (pstate = "Failed" /\ outcome.err = "NotFoundError")
  /\ (conf.kind \in {"Created", "Updated"} /\ refreshes > 0 /\ RemoteNotFound(lastObs.raw))
       => (pstate = "Failed" /\ outcome.err = "NotFoundError" /\ outcome.obj = None)

\* An update wait saw modifying, then the group was gone.
C10_Witness ==
  /\ conf.kind = "Updated" /\ refreshes = 2 /\ RemoteNotFound(lastObs.raw)
  /\ pstate = "Failed"

\* The service answered the last refresh with a failure that is not a
\* not-found report.
RefreshFailed ==
  refreshes > 0 /\ lastObs.raw.err \notin {None, "UserGroupNotFoundFault"}

\* C11: when the refresh function returns an error other than the not-found
\* report, the session is Failed on that poll, the outcome carries that error
\* and no object, and a failed session makes no further refresh call.
C11_RefreshErrorFails ==
  /\ [](RefreshFailed
          => /\ pstate = "Failed" /\ pphase = "end"
             /\ outcome.err = lastObs.raw.err /\ outcome.obj = None)
  /\ [][pstate = "Failed" => (pstate' = "Failed" /\ refreshes' = refreshes)]_vars

\* A create wait saw creating on its first poll and a service failure on its
\* second.
C11_Witness ==
  /\ conf.kind = "Created" /\ refreshes = 2 /\ RefreshFailed
  /\ pstate = "Failed" /\ outcome.err = "ServiceUnavailable"

\* C15: in one session the first refresh call is made no earlier than the
\* initial delay (30 s) after the start, and two consecutive refresh calls are
\* at least the minimum interval (10 s) apart.
C15_DelayAndMinInterval ==
  /\ refreshes >= 1 => lastRefreshAt >= Delay
  /\ minGap # 0 - 1 => minGap >= MinTimeout
  /\ refreshes >= 1 => lastRefreshAt >= Delay + (refreshes - 1) * MinTimeout

\* Three refresh calls as early as the floors allow: at 30 s, 40 s and 50 s.
C15_Witness ==
  /\ refreshes = 3 /\ lastRefreshAt = Delay + 2 * MinTimeout /\ minGap = MinTimeout

\* The timeout exceeds the three intervals the session may take before its
\* third refresh: the initial delay and two sleeps.
ExceedsThreeIntervals == conf.Timeout > Delay + 2 * MaxSleep(conf)

\* C16: when the refreshes observe pending, pending, target and the timeout
\* exceeds three poll intervals (the initial delay and two sleeps), the session
\* eventually ends in Succeeded and never in TimedOut; it succeeds after
\* exactly three refresh calls, with at least initial delay + 2 x minimum
\* interval elapsed.
C16_PendingPendingTargetSucceeds ==
  /\ ExceedsThreeIntervals ~> (pstate = "Succeeded")
  /\ [](ExceedsThreeIntervals => pstate \in {"Polling", "Succeeded"})
  /\ [](pstate = "Succeeded"
          => /\ refreshes = 3
             /\ now >= Delay + 2 * MinTimeout
             /\ outcome.obj \in conf.Target /\ outcome.err = None)

\* A create wait saw creating, modifying, active and succeeded at 50 s.
C16_Witness ==
  /\ conf.kind = "Created" /\ pstate = "Succeeded" /\ refreshes = 3
  /\ now = Delay + 2 * MinTimeout /\ ExceedsThreeIntervals
  /\ outcome.obj = userGroupStatusActive

\* C17: once the context of a polling session is done (during the initial
\* delay, during a sleep or during a refresh call), the only step the session
\* takes is to end in Canceled, at once: no time passes, no refresh call is
\* started, and it does end in Canceled, before its timeout.
C17_CancelEndsInCanceled ==
  /\ [][(pollCtxDone /\ pstate = "Polling")
          => \/ /\ pstate' = "Canceled" /\ pphase' = "end"
                /\ now' = now /\ refreshes' = refreshes
                /\ outcome'.err = "Canceled"
             \/ UNCHANGED <<pstate, pphase, now, refreshes, outcome>>]_vars
  /\ (pollCtxDone /\ pstate = "Polling") ~> (pstate = "Canceled")
  /\ [](pstate = "Canceled" => (pollCtxDone /\ now < conf.Timeout))

\* A session was canceled after it had made its second refresh call.
C17_Witness ==
  /\ pstate = "Canceled" /\ refreshes = 2 /\ lastRefreshAt = now
  /\ lastObs.found /\ outcome.err = "Canceled"

\* C26: the StateChangeConf of every wait the program starts (create, update,
\* delete) has no status label in both its Pending and its Target set.
C26_PendingTargetDisjoint ==
  pstate # "Idle" => conf.Pending \cap conf.Target = {}

\* An update wait, with one pending and one target label, observed its pending
\* label and goes on polling.
C26_Witness ==
  /\ pstate = "Polling" /\ conf.kind = "Updated" /\ refreshes > 0
  /\ conf.Pending # {} /\ conf.Target # {}
  /\ lastObs.found /\ lastObs.label \in conf.Pending /\ lastObs.label \notin conf.Target

Terminal == {"Succeeded", "Failed", "TimedOut", "Canceled"}
\* What the caller reads from the error the wait returned.
OutcomeKind(o) ==
  IF o.err = None THEN "Succeeded"
  ELSE IF o.err = "TimeoutError" THEN "TimedOut"
  ELSE IF o.err = "Canceled" THEN "Canceled"
  ELSE "Failed"

\* A step taken after the end of the session leaves its result alone.
OutcomeKept ==
  pstate \in Terminal
    => (/\ pstate' = pstate /\ outcome' = outcome
        /\ refreshes' = refreshes /\ lastObs' = lastObs)

\* C27: a session that has ended is in exactly one of Succeeded, Failed,
\* TimedOut, Canceled, and the error it returned tells the caller which one; a
\* running session has returned nothing; after the end no refresh call is made
\* and neither the outcome nor the last observation changes, whatever the
\* remote group does.
C27_OneStableOutcome ==
  /\ [](pstate \in Terminal => (pstate = OutcomeKind(outcome) /\ pphase = "end"))
  /\ [](pstate = "Polling" => outcome = NoOutcome)
  /\ [][OutcomeKept]_vars

\* A create wait succeeded on an active group, and the group has since moved to
\* deleting: the session's outcome is still the one it returned.
C27_Witness ==
  /\ pstate = "Succeeded" /\ conf.kind = "Created"
  /\ outcome.err = None /\ outcome.label = userGroupStatusActive
  /\ group = userGroupStatusDeleting

\* C28: every session ends: it reaches one of the terminal outcomes, it is
\* never still polling when its timeout has elapsed, and it ends no later than
\* at its timeout, whatever the refreshes report.
C28_EndsByTimeout ==
  /\ <>(pstate \in Terminal)
  /\ [](pstate = "Polling" => now < conf.Timeout)
  /\ [](pstate \in Terminal => now <= conf.Timeout)

\* A delete wait whose refreshes all found the group deleting ended at its
\* timeout.
C28_Witness ==
  /\ pstate = "TimedOut" /\ conf.kind = "Deleted" /\ now = conf.Timeout
  /\ refreshes >= 2 /\ allPending
  /\ lastObs.label = userGroupStatusDeleting

\* A step of the session itself: its position, clock, refresh count, last
\* observation or result changes.
SessionStep ==
  <<pstate, pphase, now, refreshes, lastRefreshAt, lastObs, outcome>>'
    # <<pstate, pphase, now, refreshes, lastRefreshAt, lastObs, outcome>>
\* The remote group and every resource's local state stay as they are.
NothingWritten ==
  /\ group' = group /\ conf' = conf
  /\ store' = store /\ tfstate' = tfstate /\ members' = members /\ uig' = uig

\* C29: no step of a poll session (delay, refresh call, refresh return, sleep,
\* end) changes the remote group, the wait's configuration or any resource's
\* local state; the remote group changes only in steps of other actors, which
\* are not steps of the session.
C29_SessionWritesNothing == [][SessionStep => NothingWritten]_vars

\* A session made two refresh calls and ended in success; the remote group is
\* still in the state the last refresh found.
C29_Witness ==
  /\ pstate = "Succeeded" /\ refreshes >= 2
  /\ lastObs.found /\ lastObs.label = group

(***************************************************************************)
(* User group resource and the remaining handler properties                *)
(***************************************************************************)
\* The last remote call of the handler, and whether it was a lookup of the
\* group that did not find it.
LastCall == gcalls[Len(gcalls)]
ReadMetNotFound ==
  /\ gpc = "done" /\ gcalls # <<>>
  /\ LastCall.api = "DescribeUserGroups"
  /\ NotFound(findUserGroupByID([err |-> LastCall.err, groups |-> LastCall.out]).err)

\* The user-in-group Read when the user is in no group: every identifier of
\* three non-empty parts, read as an existing and as a new resource.
UserInGroupReadWhenGone ==
  \A q \in {r \in ShortListsOfLen[userInGroupIDPartCount] : ~HasEmptyPart(r)},
     isNew \in BOOLEAN, fault \in {None, "UserNotFoundException"} :
    LET d == [NoResourceData EXCEPT !.id = JoinParts(q)]
        r == resourceUserInGroupRead(d, isNew, {}, fault)
    IN IF isNew THEN r.diag # None /\ r.id = d.id
       ELSE r.id = <<>> /\ r.diag = None

\* C31: when the remote object was deleted out of band, the Read of an existing
\* (not newly created) resource sets the ID to empty and reports no error, which
\* removes the resource from the state; the Read of a newly created resource
\* reports the not-found result as an error and keeps the ID. It holds for
\* resourceUserGroupRead in every run of the handlers and for
\* resourceUserInGroupRead on every identifier.
C31_ReadRemovesGoneResource ==
  /\ ReadMetNotFound =>
        IF gdata.isNew
        THEN gdiags # NoDiag /\ gdata.id # ""
        ELSE gdiags = NoDiag /\ gdata.id = ""
  /\ UserInGroupReadWhenGone

\* A resource that was in the state is read after its group was deleted: the
\* lookup finds nothing and the ID is empty.
C31_Witness ==
  /\ ReadMetNotFound /\ greq.kind = "Read" /\ ~gdata.isNew
  /\ gdata.id = "" /\ gdiags = NoDiag /\ group = Absent

\* What the handler's call of an API answered: the errors, in call order.
ErrorsOf(api) ==
  LET idx == {i \in 1..Len(gcalls) : gcalls[i].api = api}
  IN {gcalls[i].err : i \in idx}
DeleteReturnedSuccess == gpc = "done" /\ greq.kind = "Delete" /\ gdiags = NoDiag
\* The delete wait ended in success on a lookup that reported not-found.
DeleteWaitSawAbsent ==
  /\ conf.kind = "Deleted" /\ pstate = "Succeeded" /\ outcome.err = None
  /\ ~lastObs.found /\ RemoteNotFound(lastObs.raw)

\* C32: resourceUserGroupDelete returns without error only after a lookup of
\* the group reported not-found: either DeleteUserGroup itself answered with
\* the not-found fault, or DeleteUserGroup was accepted and the delete wait
\* ended on a refresh that found no group.
C32_DeleteSuccessMeansGone ==
  DeleteReturnedSuccess =>
    \/ ErrorsOf("DeleteUserGroup") = {"UserGroupNotFoundFault"} /\ pstate = "Idle"
    \/ ErrorsOf("DeleteUserGroup") = {None} /\ DeleteWaitSawAbsent

\* Delete returned success after its wait saw the group disappear.
C32_Witness ==
  /\ DeleteReturnedSuccess /\ ErrorsOf("DeleteUserGroup") = {None}
  /\ DeleteWaitSawAbsent /\ refreshes >= 2

\* The named locks a caller holds.
LocksHeldBy(p) == {l \in LockIds : mutex[l] = p}

\* A caller blocked in Lock waits for a caller that is not itself blocked: the
\* holder is past its own Lock and before its return.
WaitsOnRunningHolder(p) ==
  (pc[p] = "lock" /\ ~MutexKVFree(MutexKey(op[p].data))) =>
    pc[mutex[MutexKey(op[p].data)]] \in {"read", "write", "deferred"}

\* C33: every caller that requests a named lock eventually acquires it, given
\* that the remote read and write calls of each holder return; a running
\* handler holds at most one named lock and a blocked caller always waits for a
\* handler that is running, so no set of concurrent Create, Update and Delete
\* calls (same or different store ARNs) deadlocks.
C33_LockEventuallyAcquired ==
  /\ [](\A p \in Callers : Cardinality(LocksHeldBy(p)) <= 1)
  /\ [](\A p \in Callers : WaitsOnRunningHolder(p))
  /\ \A p \in Callers : (pc[p] = "lock") ~> (pc[p] = "read")

\* A caller is blocked in Lock on the lock another caller holds while that
\* caller is about to write.
C33_Witness ==
  \E p \in Callers, q \in Callers :
    /\ p # q /\ pc[p] = "lock" /\ pc[q] = "write"
    /\ mutex[MutexKey(op[p].data)] = q
    /\ op[p].kind # op[q].kind

\* A handler call that returned within the step that called it: the Update
\* whose plan has the value of the state. No handler changed its position and
\* one more handler was run.
UpdateReturnedAtOnce == pc' = pc /\ opsDone' = opsDone + 1
\* No lock taken or freed, no token read, nothing sent, the stores as they
\* were; the state holds the plan, whose value is the value of the old state.
OnlyStoredThePlan ==
  /\ mutex' = mutex /\ store' = store
  /\ reads' = reads /\ sent' = sent /\ etagRead' = etagRead
  /\ tfstate' = tfstate
  /\ \E p \in Callers : pc[p] = "idle" /\ tfstate'[p].present /\ ~lastFailed'[p]
UnchangedUpdateTouchesNothing == UpdateReturnedAtOnce => OnlyStoredThePlan

\* C34: keyResource.Update with an unchanged value acquires no lock, reads no
\* token and issues no remote write: it only stores the plan as the new state.
\* An Update is inside the lock / read token / write protocol only when the
\* value changed, and then it holds the lock of its store, reads the token once
\* and sends one PutKey with that token before it stores the plan.
C34_UnchangedUpdateSkipsProtocol ==
  /\ [][UnchangedUpdateTouchesNothing]_vars
  /\ [](\A p \in Callers :
          op[p].kind = "Update" =>
            /\ op[p].data.value # op[p].old.value
            /\ (pc[p] = "deferred" /\ diags[p] = NoDiag) =>
                  /\ mutex[op[p].data.arn] = p
                  /\ reads[p] = 1 /\ sent[p] = <<etagRead[p]>>
                  /\ tfstate[p].value = op[p].data.value)

\* An Update with an unchanged value has returned (nothing is running, no
\* token was read, the store was never written) and an Update of another
\* caller with a changed value stored its plan after its write.
C34_Witness ==
  \E p \in Callers, q \in Callers :
    /\ p # q /\ pc[p] = "idle"
    /\ \E n \in 1..NumCallers :
         tfstate[p] = ExistingState(p, InitialARN, InitialValue, n)
    /\ ~lastFailed[p]
    /\ opsDone = 2 /\ op[q].kind = "Update" /\ pc[q] = "deferred" /\ diags[q] = NoDiag
    /\ store[InitialARN].etag = 2

\* The token read of the running handler failed: findETagByARN was called and
\* returned no token.
TokenReadFailed(p) == reads[p] >= 1 /\ etagRead[p] = NoETag

\* C35: in keyResource Create, Update and Delete, when reading the version
\* token fails (a failing DescribeKeyValueStore, a store that is not found, an
\* answer without ETag), no PutKey or DeleteKey is issued, the handler reports
\* the error of the read and the local state is left as it was.
C35_FailedTokenReadWritesNothing ==
  \A p \in Callers :
    TokenReadFailed(p) =>
      /\ pc[p] = "deferred"
      /\ sent[p] = <<>>
      /\ diags[p].summary = "reading ETag"
      /\ diags[p].detail \in {"NotFoundError", "EmptyResultError",
                               "InternalServerException", RequestCanceled}
      /\ tfstate[p] = op[p].old
      /\ op[p].kind \in {"Create", "Update", "Delete"}

\* A Create on a store that is not found and a Delete whose token read got an
\* answer without ETag: both reads failed, nothing was sent, the key of the
\* Delete is still in the state and the key of the Create is not.
C35_Witness ==
  \E p \in Callers, q \in Callers :
    /\ TokenReadFailed(p) /\ op[p].kind = "Create"
    /\ diags[p].detail = "NotFoundError" /\ ~store[op[p].data.arn].exists
    /\ ~tfstate[p].present /\ sent[p] = <<>>
    /\ TokenReadFailed(q) /\ op[q].kind = "Delete"
    /\ diags[q].detail = "EmptyResultError"
    /\ tfstate[q].present /\ sent[q] = <<>>

\* keyResource.Delete after DeleteKey answered: not-found ends in success and
\* the key leaves the state, any other error is reported and the state kept.
KeyDeleteIsIdempotent ==
  \A p \in Callers, a \in ARNs, v \in Values :
    LET old == ExistingState(p, a, v, 1)
        data == [arn |-> a, key |-> KeyOf(p), value |-> v]
        answer(e) == [store |-> EmptyStore(TRUE), err |-> e, size |-> 0]
    IN /\ DeleteAfterDeleteKey(data, old, answer("ResourceNotFoundException"))
            = [diag |-> NoDiag, state |-> NoState]
       /\ \A e \in {"PreconditionFailed", "InternalServerException", RequestCanceled} :
            DeleteAfterDeleteKey(data, old, answer(e))
              = [diag |-> [summary |-> "deleting Key", detail |-> e], state |-> old]

\* No wait was started by the running handler.
NoWaitStarted == pstate = "Idle" /\ conf = NoConf /\ refreshes = 0

\* C36: Delete is idempotent for an object that is already absent. When
\* DeleteUserGroup answers not-found, resourceUserGroupDelete returns with no
\* error and starts no delete wait; any other error of the call is reported and
\* no wait is started; only an accepted call starts the wait. keyResource.Delete
\* likewise ends in success on a not-found answer of DeleteKey and reports every
\* other error.
C36_DeleteOfAbsentSucceeds ==
  /\ (greq.kind = "Delete" /\ gcalls # <<>>) =>
        /\ Len(gcalls) = 1 /\ gcalls[1].api = "DeleteUserGroup"
        /\ IF gcalls[1].err = "UserGroupNotFoundFault"
           THEN gpc = "done" /\ gdiags = NoDiag /\ NoWaitStarted
           ELSE IF gcalls[1].err # None
           THEN /\ gpc = "done" /\ NoWaitStarted
                /\ gdiags = [summary |-> "deleting User Group", detail |-> gcalls[1].err]
           ELSE conf.kind = "Deleted" /\ pstate # "Idle"
  /\ KeyDeleteIsIdempotent

\* Delete was called for a group that another actor had deleted: the call
\* answered not-found and Delete returned success.
C36_Witness ==
  /\ greq.kind = "Delete" /\ gpc = "done" /\ gdiags = NoDiag
  /\ ErrorsOf("DeleteUserGroup") = {"UserGroupNotFoundFault"}
  /\ NoWaitStarted /\ group = Absent /\ gdata.id = GroupId

\* The pair the codec was handed, the import of its encoded identifier and the
\* import of its resource identity.
ImportedPair == [arn |-> cparts[1], key |-> cparts[2]]
ImportById == ImportState(cid, NoIdentity)
ImportByIdentity == ImportState(<<>>, ImportedPair)
\* ImportState ran for the pair, with the identifier Encode([arn, key], 2, false)
\* made or with the identity.
ImportedThePair ==
  /\ cphase = "imported" /\ Len(cparts) = keyResourceIDPartCount
  /\ carity = keyResourceIDPartCount /\ ~callow
  /\ \/ imported.req = cid
     \/ imported.req = <<>> /\ imported.attrs = ImportByIdentity.attrs

\* C37: for the same pair (key_value_store_arn, key), keyResource.ImportState
\* produces the same state whether it is called with the encoded import ID or
\* with the resource identity: both paths report no error and set
\* key_value_store_arn, key and id, and id equals Encode([arn, key], 2, false).
C37_ImportByIdSameAsByIdentity ==
  ImportedThePair =>
    /\ ImportById = ImportByIdentity
    /\ ImportById.diag = None
    /\ ImportById.attrs = [arn |-> ImportedPair.arn, key |-> ImportedPair.key, id |-> cid]

\* The ModifyUserGroup calls the running handler made.
ModifyCalls == {i \in 1..Len(gcalls) : gcalls[i].api = "ModifyUserGroup"}

\* C38: in resourceUserGroupUpdate, for the old and the new user_ids set, the
\* request's UserIdsToAdd is new minus old and UserIdsToRemove is old minus new:
\* the two are disjoint, applying them to old gives new, and a field is left
\* unset when its set is empty. ModifyUserGroup is issued only when an attribute
\* other than the tags changed, and then once.
C38_UserIdsDiff ==
  greq.kind = "Update" =>
    LET o == greq.old_user_ids
        n == greq.user_ids
    IN /\ \A i \in ModifyCalls :
            LET add == gcalls[i].input.UserIdsToAdd
                del == gcalls[i].input.UserIdsToRemove
            IN /\ add.elems = n \ o /\ del.elems = o \ n
               /\ add.elems \cap del.elems = {}
               /\ (o \cup add.elems) \ del.elems = n
               /\ add.nil = (n \ o = {}) /\ del.nil = (o \ n = {})
               /\ greq.engineChanged \/ o # n
       /\ Cardinality(ModifyCalls) <= 1
       /\ (gpc \in {"wait", "read", "done"} /\ (greq.engineChanged \/ o # n))
            => ModifyCalls = {1}

\* An Update that replaces user u1 by u2 sent both differences, and an accepted
\* request started the update wait.
C38_Witness ==
  /\ greq.kind = "Update" /\ greq.old_user_ids = {"u1"} /\ greq.user_ids = {"u2"}
  /\ ModifyCalls = {1} /\ gcalls[1].err = None
  /\ gcalls[1].input.UserIdsToAdd = SetOf({"u2"})
  /\ gcalls[1].input.UserIdsToRemove = SetOf({"u1"})
  /\ conf.kind = "Updated"

\* The CreateUserGroup calls the running handler made.
CreateCalls == {i \in 1..Len(gcalls) : gcalls[i].api = "CreateUserGroup"}
CreateSucceeded == \E i \in CreateCalls : gcalls[i].err = None

\* C39: in resourceUserGroupCreate the resource ID is set as soon as
\* CreateUserGroup succeeds and before the create wait starts: while the wait
\* runs and after it ended in Failed, TimedOut or Canceled the ID is set, so the
\* created group stays tracked; when CreateUserGroup fails the ID is never set.
C39_IdSetBeforeWait ==
  greq.kind = "Create" =>
    /\ CreateSucceeded => gdata.id = GroupId
    /\ \A i \in CreateCalls : gcalls[i].err = None => gdata.id = gcalls[i].out[1]
    /\ ~CreateSucceeded => (gdata.id = "" /\ pstate = "Idle")
    /\ (gpc = "done" /\ ~CreateSucceeded /\ gcalls # <<>>) => gdiags # NoDiag
    /\ pstate # "Idle" => (conf.kind = "Created" /\ gdata.id = GroupId)
    /\ (gpc = "done" /\ pstate \in {"Failed", "TimedOut", "Canceled"})
         => (gdata.id = GroupId /\ gdiags.summary = "waiting for User Group create"
             /\ gdiags.detail = outcome.err)

\* Create returned after its wait timed out on a group that was still being
\* created: the error is reported and the ID is set.
C39_Witness ==
  /\ greq.kind = "Create" /\ gpc = "done" /\ pstate = "TimedOut"
  /\ gdata.id = GroupId /\ gdiags.detail = "TimeoutError"
  /\ lastObs.label = userGroupStatusCreating

\* The createTags and DescribeUserGroups calls the running handler made.
TagCalls == {i \in 1..Len(gcalls) : gcalls[i].api = "createTags"}
ReadCalls == {i \in 1..Len(gcalls) : gcalls[i].api = "DescribeUserGroups"}

\* The first CreateUserGroup call was sent with tags and failed with the
\* unsupported-in-partition error.
TagOnCreateUnsupported ==
  /\ gcalls # <<>>
  /\ gcalls[1].api = "CreateUserGroup"
  /\ gcalls[1].input.Tags # NilSet
  /\ gcalls[1].err = "UnsupportedOperation"

\* The calls of Create come in the order CreateUserGroup, createTags, read.
CreateCallsInOrder ==
  \A i \in CreateCalls, j \in TagCalls, k \in ReadCalls : i < j /\ j < k

\* The second CreateUserGroup call follows an unsupported first call that
\* carried tags, and is the same request without the tags.
SecondCreateIsTheFallback ==
  /\ Cardinality(CreateCalls) <= 2
  /\ Cardinality(CreateCalls) = 2 =>
       /\ TagOnCreateUnsupported
       /\ gcalls[2].api = "CreateUserGroup"
       /\ gcalls[2].input = [gcalls[1].input EXCEPT !.Tags = NilSet]
  /\ (TagOnCreateUnsupported /\ gpc # "create") => Cardinality(CreateCalls) = 2

\* createTags is called once at most, in the fallback case, after a create
\* wait that succeeded, with the non-empty tags of the request.
TagsAppliedOnlyInFallback ==
  /\ Cardinality(TagCalls) <= 1
  /\ \A j \in TagCalls :
       /\ TagOnCreateUnsupported /\ Cardinality(CreateCalls) = 2
       /\ gcalls[2].err = None
       /\ pstate = "Succeeded" /\ conf.kind = "Created"
       /\ gcalls[j].input.elems # {}
       /\ gcalls[j].input.elems = greq.tags \cup greq.defaultTags
  /\ (gpc \in {"read", "done"} /\ pstate = "Succeeded" /\ TagOnCreateUnsupported)
       => Cardinality(TagCalls) = 1
  /\ gpc = "tag" => (TagCalls = {} /\ pstate = "Succeeded")

\* What Create does with the answer of createTags: an unsupported-operation
\* error is passed over, and the read made, when the resource has no tags of
\* its own; any other error, and the unsupported one when it has, is returned.
TagErrorIgnoredOnlyWithoutOwnTags ==
  \A j \in TagCalls :
    LET err == gcalls[j].err
        ignored == err = "UnsupportedOperation" /\ greq.tags = {}
    IN /\ (err = None \/ ignored) => (gpc = "done" => ReadCalls # {})
       /\ (err # None /\ ~ignored) =>
            /\ gpc = "done" /\ ReadCalls = {}
            /\ gdiags = [summary |-> "setting User Group tags", detail |-> err]

\* C40: resourceUserGroupCreate calls CreateUserGroup at most twice, the second
\* time only when the first call carried tags and failed with the
\* unsupported-in-partition error, and then without tags; it applies the tags
\* after the create wait only in that case and only when there are tags; an
\* unsupported-operation error of that tagging is ignored only when the
\* resource has no tags of its own.
C40_TagFallback ==
  greq.kind = "Create" =>
    /\ CreateCallsInOrder
    /\ SecondCreateIsTheFallback
    /\ TagsAppliedOnlyInFallback
    /\ TagErrorIgnoredOnlyWithoutOwnTags

\* Create fell back to tagging after the wait with default tags only, the
\* tagging was unsupported as well, and Create went on to read the group.
C40_Witness ==
  /\ greq.kind = "Create" /\ gpc = "done"
  /\ greq.tags = {} /\ greq.defaultTags # {}
  /\ Cardinality(CreateCalls) = 2
  /\ \E j \in TagCalls : gcalls[j].err = "UnsupportedOperation"
  /\ ReadCalls # {} /\ gdiags = NoDiag
====
